---- MODULE Spec2Model ----
(***************************************************************************)
(* Bid lifecycle of the construction marketplace: the Bid and Project      *)
(* documents, the Mongoose document methods that change them, and the      *)
(* BidService operations (submitBid, updateBid, selectBid, rejectBid) as   *)
(* interleaved request handlers over a MongoDB store with multi-document   *)
(* transactions.                                                           *)
(***************************************************************************)
EXTENDS Integers, Sequences, FiniteSets, TLC

\* ------------------------------------------------------------------ bounds
MaxBids == 2        \* bid documents ever inserted
MaxCalls == 2       \* service calls started after the initial state

\* ------------------------------------------------------------ identifiers
BidIds == 1..MaxBids
ProjectIds == {1, 2}
ClientUsers == {1, 2}
VendorUsers == {1, 2}
Slots == {"r1", "r2"}      \* requests in flight at the same time

\* ------------------------------------------------------------------- text
\* A text is a sequence of tokens; "<", ">" and " " are the characters the
\* sanitizer looks at, every other token stands for a run of other characters.
Undefined == <<"undefined">>

RECURSIVE StripAngles(_)
StripAngles(t) ==
    IF t = <<>> THEN <<>>
    ELSE IF Head(t) \in {"<", ">"} THEN StripAngles(Tail(t))
         ELSE <<Head(t)>> \o StripAngles(Tail(t))

RECURSIVE TrimLeft(_)
TrimLeft(t) ==
    IF t = <<>> THEN <<>>
    ELSE IF Head(t) = " " THEN TrimLeft(Tail(t)) ELSE t

RECURSIVE TrimRight(_)
TrimRight(t) ==
    IF t = <<>> THEN <<>>
    ELSE IF t[Len(t)] = " " THEN TrimRight(SubSeq(t, 1, Len(t) - 1)) ELSE t

sanitizeText(t) ==
    IF t = <<>> \/ t = Undefined THEN t
    ELSE TrimRight(TrimLeft(StripAngles(t)))

\* ------------------------------------------------------------- documents
BidStatuses == {"DRAFT", "PENDING", "IN_REVIEW", "ACCEPTED", "REJECTED", "WITHDRAWN"}

HistEntry(s, r) == [status |-> s, reason |-> r]

NoBid == [exists |-> FALSE, project |-> 0, vendor |-> 0, cost |-> 0,
          cur |-> "DRAFT", hist |-> <<>>, negs |-> <<>>, milestones |-> <<>>]

NoProject == [exists |-> FALSE, client |-> 0, projectType |-> "", minExperience |-> 0,
              minRating |-> 0, cur |-> "DRAFT", hist |-> <<>>]

\* A bid write as Mongoose sends it: $set of the modified paths, $push of the
\* history entries added since the last save.
NoDelta == [setCur |-> FALSE, cur |-> "DRAFT", push |-> <<>>, setCost |-> FALSE, cost |-> 0,
            setProject |-> FALSE, project |-> 0, setVendor |-> FALSE, vendor |-> 0,
            setNegs |-> FALSE, negs |-> <<>>, setMilestones |-> FALSE, milestones |-> <<>>]

ApplyDelta(doc, d) ==
    [doc EXCEPT !.cur = IF d.setCur THEN d.cur ELSE @,
                !.hist = @ \o d.push,
                !.cost = IF d.setCost THEN d.cost ELSE @,
                !.project = IF d.setProject THEN d.project ELSE @,
                !.vendor = IF d.setVendor THEN d.vendor ELSE @,
                !.negs = IF d.setNegs THEN d.negs ELSE @,
                !.milestones = IF d.setMilestones THEN d.milestones ELSE @]

\* ---------------------------------------------------------- static tables
\* Profiles are managed outside the bid service; they do not change here.
ClientProfileOf(u) == u

VendorProfile(u) ==
    IF u = 1 THEN [id |-> 1, status |-> "active", services |-> {"residential"},
                   yearsInBusiness |-> 4, rating |-> 4]
    ELSE [id |-> 2, status |-> "active", services |-> {},
          yearsInBusiness |-> 2, rating |-> 4]

\* project.pre('save') adds a second entry for the status set at creation
NewProject(client, minExp) ==
    [exists |-> TRUE, client |-> client, projectType |-> "residential",
     minExperience |-> minExp, minRating |-> 0, cur |-> "OPEN",
     hist |-> <<HistEntry("OPEN", <<"Project published on creation">>),
                HistEntry("OPEN", Undefined)>>]

\* no helper is under evaluation
NoProbe == [fn |-> "none"]

\* new TTLCache(): an empty Map; entries are kept in insertion order
NewTTLCache == [entries |-> <<>>, now |-> 0, ret |-> <<"none">>]

VARIABLES
    bids,       \* the bids collection
    projects,   \* the projects collection
    calls,      \* the requests in flight, one record per slot
    nextBid,    \* the next fresh bid _id
    nCalls,     \* calls started so far
    ntrans,     \* per bid, the successful status transitions so far
    cache,      \* projectBidsCache and bidCache of the service
    probe,      \* a helper of the service under evaluation: its arguments and result
    ttl         \* one TTLCache instance: its Map, the clock and the last return value

vars == <<bids, projects, calls, nextBid, nCalls, ntrans, cache, probe, ttl>>

\* ------------------------------------------------------- document methods
\* (mutant) a table that lets an accepted bid be rejected and a bid keep its status
validTransitionsLoose(cur) ==
    CASE cur = "DRAFT" -> {"PENDING", "WITHDRAWN"}
      [] cur = "PENDING" -> {"IN_REVIEW", "WITHDRAWN", "REJECTED", "PENDING"}
      [] cur = "IN_REVIEW" -> {"ACCEPTED", "REJECTED", "PENDING"}
      [] cur = "ACCEPTED" -> {"IN_REVIEW", "REJECTED"}
      [] cur = "REJECTED" -> {"IN_REVIEW"}
      [] cur = "WITHDRAWN" -> {"PENDING"}
      [] OTHER -> {}

validTransitions(cur) ==
    CASE cur = "DRAFT" -> {"PENDING", "WITHDRAWN"}
      [] cur = "PENDING" -> {"IN_REVIEW", "WITHDRAWN", "REJECTED"}
      [] cur = "IN_REVIEW" -> {"ACCEPTED", "REJECTED", "PENDING"}
      [] cur = "ACCEPTED" -> {"IN_REVIEW"}
      [] cur = "REJECTED" -> {"IN_REVIEW"}
      [] cur = "WITHDRAWN" -> {"PENDING"}
      [] OTHER -> {}

\* bidSchema.pre('save'): one more history entry when status.current was modified
preSavePush(statusModified, cur) ==
    IF statusModified THEN <<HistEntry(cur, Undefined)>> ELSE <<>>

\* bid.updateStatus on a loaded document: the error it throws, or the document
\* after the call and the write that its save() sends.
\* (mutant) updateStatus that pushes the entry without the reason
updateStatusNoReason(doc, newStatus, reason) ==
    IF newStatus \notin validTransitions(doc.cur)
    THEN [ok |-> FALSE, doc |-> doc, delta |-> NoDelta,
          err |-> <<"400", "Invalid status transition from", doc.cur, "to", newStatus>>]
    ELSE LET pushed == <<HistEntry(newStatus, Undefined)>> \o preSavePush(TRUE, newStatus)
         IN [ok |-> TRUE,
             doc |-> [doc EXCEPT !.cur = newStatus, !.hist = @ \o pushed],
             delta |-> [NoDelta EXCEPT !.setCur = TRUE, !.cur = newStatus, !.push = pushed],
             err |-> <<>>]

updateStatus(doc, newStatus, reason) ==
    IF newStatus \notin validTransitions(doc.cur)
    THEN [ok |-> FALSE, doc |-> doc, delta |-> NoDelta,
          err |-> <<"400", "Invalid status transition from", doc.cur, "to", newStatus>>]
    ELSE LET pushed == <<HistEntry(newStatus, reason)>> \o preSavePush(TRUE, newStatus)
         IN [ok |-> TRUE,
             doc |-> [doc EXCEPT !.cur = newStatus, !.hist = @ \o pushed],
             delta |-> [NoDelta EXCEPT !.setCur = TRUE, !.cur = newStatus, !.push = pushed],
             err |-> <<>>]

\* ------------------------------------------------------------ eligibility
\* project.preferences?.vendorRequirements?.x of a document without that path
Absent == -1
\* undefined > n is false
JsGreater(a, b) == a # Absent /\ a > b

\* (mutant) the rating requirement checked before the experience requirement
validateVendorEligibilityRatingFirst(vendor, project) ==
    IF vendor.status # "active" THEN <<"400", "Vendor account is not active">>
    ELSE IF vendor.services # {} /\ "NA" \notin vendor.services
            /\ project.projectType \notin vendor.services
    THEN <<"400", "Project type does not match vendor services">>
    ELSE IF JsGreater(project.minRating, vendor.rating)
    THEN <<"400", "Vendor does not meet minimum rating requirement">>
    ELSE IF JsGreater(project.minExperience, vendor.yearsInBusiness)
    THEN <<"400", "Vendor does not meet minimum experience requirement">>
    ELSE <<"ok">>

validateVendorEligibility(vendor, project) ==
    IF vendor.status # "active" THEN <<"400", "Vendor account is not active">>
    ELSE IF vendor.services # {} /\ "NA" \notin vendor.services
            /\ project.projectType \notin vendor.services
    THEN <<"400", "Project type does not match vendor services">>
    ELSE IF JsGreater(project.minExperience, vendor.yearsInBusiness)
    THEN <<"400", "Vendor does not meet minimum experience requirement">>
    ELSE IF JsGreater(project.minRating, vendor.rating)
    THEN <<"400", "Vendor does not meet minimum rating requirement">>
    ELSE <<"ok">>

\* ------------------------------------------------------------- the caches
DEFAULT_LIMIT == 20
MAX_LIMIT == 100
DEFAULT_PAGE == 1

Max(a, b) == IF a >= b THEN a ELSE b
\* xs.reduce((a, b) => a + b, 0)
RECURSIVE Sum(_)
Sum(seq) == IF seq = <<>> THEN 0 ELSE Head(seq) + Sum(Tail(seq))
Min(a, b) == IF a <= b THEN a ELSE b

\* parseInt(x) || d: a missing value, and 0, give the default
OrDefault(x, d) == IF x = 0 THEN d ELSE x

validatePagination(page, limit) ==
    [page |-> Max(DEFAULT_PAGE, OrDefault(page, DEFAULT_PAGE)),
     limit |-> Min(MAX_LIMIT, Max(1, OrDefault(limit, DEFAULT_LIMIT)))]

\* the arguments of getProjectBids: status "" is a call without a status filter
StatusArgs == {"", "pending"}
PageArgs == {0, 2}
LimitArgs == {0, 1}

toUpperCase(t) == IF t = "pending" THEN "PENDING" ELSE t

\* `project_bids_${projectId}_${status || 'all'}_${page}_${limit}`
ListKey(p, status, pg) == <<p, IF status = "" THEN "all" ELSE status, pg.page, pg.limit>>

ListKeys ==
    {ListKey(p, st, validatePagination(pg, lm)) :
        p \in ProjectIds, st \in StatusArgs, pg \in PageArgs, lm \in LimitArgs}

NoNegotiation == [initiator |-> "", status |-> ""]
NoList == [present |-> FALSE, bids |-> <<>>, total |-> 0]
NoAnalysis == [present |-> FALSE, cost |-> 0, bidCount |-> 0, min |-> 0, max |-> 0]

EmptyCache == [lists |-> [k \in ListKeys |-> NoList], analyses |-> [b \in BidIds |-> NoAnalysis]]

\* _clearProjectBidCaches(projectId): the list entries whose key names the
\* project, and every competitive-analysis entry
clearProjectBidCaches(c, p) ==
    [lists |-> [k \in ListKeys |-> IF k[1] = p THEN NoList ELSE c.lists[k]],
     analyses |-> [b \in BidIds |-> NoAnalysis]]

\* ------------------------------------------------------------------ calls
Ok == <<"ok">>

NoBids == [b \in BidIds |-> NoBid]
NoProjects == [p \in ProjectIds |-> NoProject]

IdleCall ==
    [op |-> "none", pc |-> "idle", bidId |-> 0, projectId |-> 0, user |-> 0,
     cost |-> 0, keys |-> {}, reason |-> Undefined, newStatus |-> "DRAFT",
     lbid |-> NoBid, lproj |-> NoProject, bidRead |-> FALSE, projRead |-> FALSE,
     delta |-> NoDelta, txBids |-> {}, txProj |-> FALSE, txIns |-> NoBid,
     snap |-> FALSE, stale |-> FALSE,
     filter |-> "", page |-> 0, limit |-> 0, ids |-> <<>>, total |-> 0,
     list |-> NoList, analysis |-> NoAnalysis, neg |-> NoNegotiation,
     result |-> <<>>, alone |-> TRUE, preBids |-> NoBids, preProjects |-> NoProjects]

InFlight(c) == c.pc \notin {"idle", "done"}

\* the call returns: its transaction (if any) is over, its locals are gone
Return(c, res) ==
    [c EXCEPT !.pc = "done", !.result = res,
              !.lbid = NoBid, !.lproj = NoProject, !.bidRead = FALSE, !.projRead = FALSE,
              !.delta = NoDelta, !.txBids = {}, !.txProj = FALSE, !.txIns = NoBid,
              !.snap = FALSE, !.stale = FALSE, !.ids = <<>>, !.total = 0]

\* a new call in slot s; the calls already in flight are no longer alone
Begin(s, c) ==
    LET first == \A u \in Slots \ {s} : ~InFlight(calls[u])
    IN [t \in Slots |->
          IF t = s
          THEN [c EXCEPT !.alone = first,
                         !.preBids = IF first THEN bids ELSE NoBids,
                         !.preProjects = IF first THEN projects ELSE NoProjects]
          ELSE IF InFlight(calls[t])
          THEN [calls[t] EXCEPT !.alone = FALSE, !.preBids = NoBids,
                                !.preProjects = NoProjects]
          ELSE calls[t]]

\* a returned call is observed and retired before anything else happens
Quiet == \A t \in Slots : calls[t].pc # "done"

\* requests are anonymous: a new one takes the first free slot
CanStart(s) ==
    /\ Quiet
    /\ nCalls < MaxCalls
    /\ ~InFlight(calls[s])
    /\ \A t \in Slots : (t = "r1" /\ s = "r2") => InFlight(calls[t])

Retire(s) ==
    /\ calls[s].pc = "done"
    /\ calls' = [calls EXCEPT ![s] = IdleCall]
    /\ UNCHANGED <<bids, projects, nextBid, nCalls, ntrans, cache, probe, ttl>>

\* ------------------------------------------------------------- the store
\* a document another transaction has written and not yet committed
LockedBid(s, b) == \E t \in Slots \ {s} : b \in calls[t].txBids
LockedProject(s, p) == \E t \in Slots \ {s} : calls[t].txProj /\ calls[t].projectId = p

\* (mutant) a duplicate check that sees committed bids only
UniqueIndexCommittedOnly(s, p, v) ==
    \E b \in BidIds : bids[b].exists /\ bids[b].project = p /\ bids[b].vendor = v

\* the unique index {project, vendor}: a committed or an uncommitted duplicate
UniqueIndexViolated(s, p, v) ==
    \/ \E b \in BidIds : bids[b].exists /\ bids[b].project = p /\ bids[b].vendor = v
    \/ \E t \in Slots \ {s} :
          calls[t].txIns.exists /\ calls[t].txIns.project = p /\ calls[t].txIns.vendor = v

\* the data of the new Bid document of submitBid; its save() runs pre('save') on
\* a new document, for which status.current counts as modified
\* BID_CONSTANTS.MILESTONES: the paymentPercentage of the three milestones
FOUNDATION_PAYMENT == 30
STRUCTURE_PAYMENT == 40
COMPLETION_PAYMENT == 30

NewBid(p, v, cost) ==
    [exists |-> TRUE, project |-> p, vendor |-> v, cost |-> cost, cur |-> "PENDING",
     hist |-> <<HistEntry("PENDING", Undefined)>> \o preSavePush(TRUE, "PENDING"),
     negs |-> <<>>,
     milestones |-> <<FOUNDATION_PAYMENT, STRUCTURE_PAYMENT, COMPLETION_PAYMENT>>]

\* the stores that earlier, completed submitBid calls leave behind
InitStores ==
    {NoBids,
     [NoBids EXCEPT ![1] = NewBid(1, 1, 100)],
     [NoBids EXCEPT ![1] = NewBid(1, 1, 100), ![2] = NewBid(1, 2, 100)]}

TypeOK ==
    /\ nextBid \in 1..(MaxBids + 1)
    /\ nCalls \in 0..MaxCalls
    /\ \A b \in BidIds : bids[b].cur \in BidStatuses

Init ==
    /\ bids \in InitStores
    /\ projects = [p \in ProjectIds |-> IF p = 1 THEN NewProject(1, 0) ELSE NewProject(2, 5)]
    /\ calls = [s \in Slots |-> IdleCall]
    /\ nextBid = 1 + Cardinality({b \in BidIds : bids[b].exists})
    /\ nCalls = 0
    /\ ntrans = [b \in BidIds |-> 0]
    /\ cache = EmptyCache
    /\ probe = NoProbe
    /\ ttl = NewTTLCache

\* --------------------------------------------------------------- inputs
Costs == {-1, 100}          \* proposedCost of a request; -1 fails validation
Patches ==
    {[keys |-> {"proposedCost"}, cost |-> 120, project |-> 0, vendor |-> 0, negs |-> <<>>,
      milestones |-> <<>>],
     [keys |-> {"proposedCost", "status", "project", "vendor", "_id"}, cost |-> 100,
      project |-> 2, vendor |-> 2, negs |-> <<>>, milestones |-> <<>>],
     [keys |-> {"proposedCost"}, cost |-> -1, project |-> 0, vendor |-> 0, negs |-> <<>>,
      milestones |-> <<>>]}
\* patches that name fields _sanitizeUpdateData does not list
OtherPatches ==
    {[keys |-> {"negotiations"}, cost |-> 0, project |-> 0, vendor |-> 0, negs |-> <<>>,
      milestones |-> <<>>],
     [keys |-> {"timeline"}, cost |-> 0, project |-> 0, vendor |-> 0, negs |-> <<>>,
      milestones |-> <<50, 20>>],
     [keys |-> {"timeline"}, cost |-> 0, project |-> 0, vendor |-> 0, negs |-> <<>>,
      milestones |-> <<150>>]}

\* bidTimelineSchema: paymentPercentage min 0, max 100, for each milestone
ValidMilestones(ms) == \A i \in 1..Len(ms) : ms[i] >= 0 /\ ms[i] <= 100
Reasons == {<<"<", "late", ">", " ">>}
\* the ids a request can name: those of the stored bids and one that is absent
TargetIds == 1..(IF nextBid < MaxBids THEN nextBid ELSE MaxBids)

\* -------------------------------------------------------------- submitBid
\* (mutant) the checks of submitBid without the eligibility check
SubmitChecksNoEligibility(u, p) ==
    IF ~projects[p].exists THEN <<"404", "Project not found">>
    ELSE IF u \notin VendorUsers THEN <<"404", "Vendor not found">>
    ELSE IF projects[p].cur \notin {"OPEN", "IN_REVIEW"}
    THEN <<"400", "Project is not open for bidding">>
    ELSE Ok

\* the reads and checks before the bid is built
SubmitChecks(u, p) ==
    IF ~projects[p].exists THEN <<"404", "Project not found">>
    ELSE IF u \notin VendorUsers THEN <<"404", "Vendor not found">>
    ELSE IF projects[p].cur \notin {"OPEN", "IN_REVIEW"}
    THEN <<"400", "Project is not open for bidding">>
    ELSE validateVendorEligibility(VendorProfile(u), projects[p])

SubmitStart(s, p, u, cost) ==
    /\ CanStart(s)
    /\ nCalls' = nCalls + 1
    /\ LET c0 == [IdleCall EXCEPT !.op = "submit", !.projectId = p, !.user = u, !.cost = cost]
           chk == SubmitChecks(u, p)
       IN calls' = Begin(s, IF chk = Ok THEN [c0 EXCEPT !.pc = "sb_save"]
                               ELSE Return(c0, chk))
    /\ UNCHANGED <<bids, projects, nextBid, ntrans, cache, probe, ttl>>

\* bid.save({ session }): validation, then the insert inside the transaction
SubmitSave(s) ==
    LET c == calls[s]
        v == VendorProfile(c.user).id
    IN /\ Quiet /\ c.pc = "sb_save"
       /\ IF c.cost < 0
          THEN /\ calls' = [calls EXCEPT ![s] = Return(c, <<"400", "Invalid bid data">>)]
               /\ UNCHANGED nextBid
          ELSE IF UniqueIndexViolated(s, c.projectId, v)
          THEN /\ calls' = [calls EXCEPT ![s] =
                      Return(c, <<"400", "Vendor has already submitted a bid for this project">>)]
               /\ UNCHANGED nextBid
          ELSE /\ nextBid <= MaxBids
               /\ calls' = [calls EXCEPT ![s] =
                      [c EXCEPT !.pc = "sb_commit", !.bidId = nextBid,
                                !.txIns = NewBid(c.projectId, v, c.cost)]]
               /\ nextBid' = nextBid + 1
       /\ UNCHANGED <<bids, projects, nCalls, ntrans, cache, probe, ttl>>

SubmitCommit(s) ==
    LET c == calls[s]
    IN /\ Quiet /\ c.pc = "sb_commit"
       /\ bids' = [bids EXCEPT ![c.bidId] = c.txIns]
       /\ calls' = [calls EXCEPT ![s] = Return(c, Ok)]
       /\ UNCHANGED <<projects, nextBid, nCalls, ntrans, cache, probe, ttl>>

\* -------------------------------------------------------------- updateBid
\* (mutant) the list of immutable fields without 'status', as in the earlier
\* variant of the service
sanitizeUpdateDataEarlier(keys) ==
    keys \ {"project", "vendor", "metadata", "_id", "createdAt", "updatedAt"}

sanitizeUpdateData(keys) ==
    keys \ {"project", "vendor", "status", "metadata", "_id", "createdAt", "updatedAt"}

\* (mutant) updateBid without the check of the bid's status
UpdateChecksNoStatusGuard(b, u) ==
    IF u \notin VendorUsers THEN <<"404", "Vendor profile not found">>
    ELSE IF ~bids[b].exists THEN <<"404", "Bid not found">>
    ELSE IF bids[b].vendor # VendorProfile(u).id
    THEN <<"403", "Not authorized to access this bid">>
    ELSE Ok

UpdateChecks(b, u) ==
    IF u \notin VendorUsers THEN <<"404", "Vendor profile not found">>
    ELSE IF ~bids[b].exists THEN <<"404", "Bid not found">>
    ELSE IF bids[b].vendor # VendorProfile(u).id
    THEN <<"403", "Not authorized to access this bid">>
    ELSE IF bids[b].cur \notin {"DRAFT", "PENDING"}
    THEN <<"400", "Cannot update bid in current status">>
    ELSE Ok

UpdateStart(s, b, u, patch) ==
    /\ CanStart(s)
    /\ nCalls' = nCalls + 1
    /\ LET c0 == [IdleCall EXCEPT !.op = "update", !.bidId = b, !.user = u,
                                  !.keys = patch.keys, !.cost = patch.cost]
           chk == UpdateChecks(b, u)
           kept == sanitizeUpdateData(patch.keys)
       IN calls' = Begin(s,
             IF chk = Ok
             THEN [c0 EXCEPT !.pc = "ub_save", !.cost = 0,
                             !.delta = [NoDelta EXCEPT
                                           !.setCur = "status" \in kept,
                                           !.cur = "ACCEPTED",
                                           !.push = preSavePush("status" \in kept, "ACCEPTED"),
                                           !.setCost = "proposedCost" \in kept,
                                           !.cost = patch.cost,
                                           !.setProject = "project" \in kept,
                                           !.project = patch.project,
                                           !.setVendor = "vendor" \in kept,
                                           !.vendor = patch.vendor,
                                           !.setNegs = "negotiations" \in kept,
                                           !.negs = patch.negs,
                                           !.setMilestones = "timeline" \in kept,
                                           !.milestones = patch.milestones]]
             ELSE Return(c0, chk))
    /\ UNCHANGED <<bids, projects, nextBid, ntrans, cache, probe, ttl>>

\* bid.save() outside any transaction: validation, then the update by _id
UpdateSave(s) ==
    LET c == calls[s]
    IN /\ Quiet /\ c.pc = "ub_save"
       /\ IF \/ c.delta.setCost /\ c.delta.cost < 0
             \/ c.delta.setMilestones /\ ~ValidMilestones(c.delta.milestones)
          THEN /\ calls' = [calls EXCEPT ![s] = Return(c, <<"400", "Invalid update data">>)]
               /\ UNCHANGED bids
          ELSE /\ ~LockedBid(s, c.bidId)
               /\ IF bids[c.bidId].exists
                  THEN /\ bids' = [bids EXCEPT ![c.bidId] = ApplyDelta(@, c.delta)]
                       /\ calls' = [calls EXCEPT ![s] = Return(c, Ok)]
                  ELSE /\ calls' = [calls EXCEPT ![s] =
                              Return(c, <<"500", "Error updating bid">>)]
                       /\ UNCHANGED bids
       /\ UNCHANGED <<projects, nextBid, nCalls, ntrans, cache, probe, ttl>>

\* ------------------------------------------------- selectBid / rejectBid
\* (mutant) a project lookup by _id alone
FindProjectById(p, u) == projects[p]

\* Project.findOne({ _id: projectId, client: clientProfile._id })
FindOwnedProject(p, u) ==
    IF projects[p].exists /\ projects[p].client = ClientProfileOf(u)
    THEN projects[p] ELSE NoProject

\* (mutant) selectBid without the check of the project's status
SelectChecksNoProjectGuard(c) ==
    IF ~c.lbid.exists THEN Return(c, <<"404", "Bid not found">>)
    ELSE IF ~c.lproj.exists THEN Return(c, <<"404", "Project not found or unauthorized">>)
    ELSE IF c.lbid.cur = "ACCEPTED" THEN Return(c, Ok)
    ELSE IF c.lbid.cur \notin {"PENDING", "IN_REVIEW"}
    THEN Return(c, <<"400", "Bid cannot be selected in current status">>)
    ELSE [c EXCEPT !.pc = IF c.lbid.cur = "PENDING" THEN "sel_review" ELSE "sel_accept",
                   !.lproj = NoProject]

\* (mutant) selectBid without the idempotent return for an accepted bid
SelectChecksNoIdempotence(c) ==
    IF ~c.lbid.exists THEN Return(c, <<"404", "Bid not found">>)
    ELSE IF ~c.lproj.exists THEN Return(c, <<"404", "Project not found or unauthorized">>)
    ELSE IF c.lbid.cur \notin {"PENDING", "IN_REVIEW"}
    THEN Return(c, <<"400", "Bid cannot be selected in current status">>)
    ELSE IF c.lproj.cur \notin {"OPEN", "IN_REVIEW"}
    THEN Return(c, <<"400", "Project must be open or in review to select bids">>)
    ELSE [c EXCEPT !.pc = IF c.lbid.cur = "PENDING" THEN "sel_review" ELSE "sel_accept",
                   !.lproj = NoProject]

\* selectBid, from the two loads to the first write
SelectChecks(c) ==
    IF ~c.lbid.exists THEN Return(c, <<"404", "Bid not found">>)
    ELSE IF ~c.lproj.exists THEN Return(c, <<"404", "Project not found or unauthorized">>)
    ELSE IF c.lbid.cur = "ACCEPTED" THEN Return(c, Ok)
    ELSE IF c.lbid.cur \notin {"PENDING", "IN_REVIEW"}
    THEN Return(c, <<"400", "Bid cannot be selected in current status">>)
    ELSE IF c.lproj.cur \notin {"OPEN", "IN_REVIEW"}
    THEN Return(c, <<"400", "Project must be open or in review to select bids">>)
    ELSE [c EXCEPT !.pc = IF c.lbid.cur = "PENDING" THEN "sel_review" ELSE "sel_accept",
                   !.lproj = NoProject]

\* (mutant) rejectBid without the return for a bid that is already rejected
RejectChecksNoIdempotence(c) ==
    IF ~c.lbid.exists THEN Return(c, <<"404", "Bid not found">>)
    ELSE IF ~c.lproj.exists THEN Return(c, <<"404", "Project not found or unauthorized">>)
    ELSE IF c.lbid.cur = "ACCEPTED" THEN Return(c, <<"400", "Cannot reject an accepted bid">>)
    ELSE [c EXCEPT !.pc = "rj_save", !.lproj = NoProject]

\* (mutant) rejectBid without the guard for an accepted bid
RejectChecksNoAcceptedGuard(c) ==
    IF ~c.lbid.exists THEN Return(c, <<"404", "Bid not found">>)
    ELSE IF ~c.lproj.exists THEN Return(c, <<"404", "Project not found or unauthorized">>)
    ELSE IF c.lbid.cur = "REJECTED" THEN Return(c, Ok)
    ELSE [c EXCEPT !.pc = "rj_save", !.lproj = NoProject]

\* rejectBid, from the two loads to the write
RejectChecks(c) ==
    IF ~c.lbid.exists THEN Return(c, <<"404", "Bid not found">>)
    ELSE IF ~c.lproj.exists THEN Return(c, <<"404", "Project not found or unauthorized">>)
    ELSE IF c.lbid.cur = "REJECTED" THEN Return(c, Ok)
    ELSE IF c.lbid.cur = "ACCEPTED" THEN Return(c, <<"400", "Cannot reject an accepted bid">>)
    ELSE [c EXCEPT !.pc = "rj_save", !.lproj = NoProject]

AfterLoad(c) ==
    IF ~(c.bidRead /\ c.projRead) THEN c
    ELSE IF c.op = "select" THEN SelectChecks(c) ELSE RejectChecks(c)

SelectStart(s, b, p, u) ==
    /\ CanStart(s)
    /\ nCalls' = nCalls + 1
    /\ calls' = Begin(s, [IdleCall EXCEPT !.op = "select", !.pc = "load", !.bidId = b,
                                          !.projectId = p, !.user = u])
    /\ UNCHANGED <<bids, projects, nextBid, ntrans, cache, probe, ttl>>

RejectStart(s, b, p, u, reason) ==
    /\ CanStart(s)
    /\ nCalls' = nCalls + 1
    /\ calls' = Begin(s, [IdleCall EXCEPT !.op = "reject", !.pc = "load", !.bidId = b,
                                          !.projectId = p, !.user = u,
                                          !.reason = sanitizeText(
                                              IF reason = Undefined
                                              THEN <<"Bid rejected by client">> ELSE reason)])
    /\ UNCHANGED <<bids, projects, nextBid, ntrans, cache, probe, ttl>>

\* the two queries of Promise.all are answered one after the other, in any order
LoadBid(s) ==
    LET c == calls[s]
    IN /\ Quiet /\ c.pc = "load" /\ ~c.bidRead
       /\ calls' = [calls EXCEPT ![s] =
              AfterLoad([c EXCEPT !.bidRead = TRUE, !.lbid = bids[c.bidId]])]
       /\ UNCHANGED <<bids, projects, nextBid, nCalls, ntrans, cache, probe, ttl>>

LoadProject(s) ==
    LET c == calls[s]
    IN /\ Quiet /\ c.pc = "load" /\ ~c.projRead
       /\ calls' = [calls EXCEPT ![s] =
              AfterLoad([c EXCEPT !.projRead = TRUE,
                                  !.lproj = FindOwnedProject(c.projectId, c.user)])]
       /\ UNCHANGED <<bids, projects, nextBid, nCalls, ntrans, cache, probe, ttl>>

\* bid.updateStatus(newStatus, reason) of the loaded document; its save() has no
\* session, so the write is applied at once, outside the transaction. It waits
\* while another transaction holds the document.
StatusWrite(s, newStatus, reason, nextPc, failMsg) ==
    LET c == calls[s]
        r == updateStatus(c.lbid, newStatus, reason)
    IN IF ~r.ok
       THEN /\ calls' = [calls EXCEPT ![s] = Return(c, r.err)]
            /\ UNCHANGED <<bids, ntrans>>
       ELSE /\ ~LockedBid(s, c.bidId)
            /\ IF bids[c.bidId].exists
               THEN /\ bids' = [bids EXCEPT ![c.bidId] = ApplyDelta(@, r.delta)]
                    /\ ntrans' = [ntrans EXCEPT ![c.bidId] = @ + 1]
                    /\ calls' = [calls EXCEPT ![s] =
                           IF nextPc = "done" THEN Return(c, Ok)
                           ELSE [c EXCEPT !.pc = nextPc, !.lbid = r.doc]]
               ELSE /\ calls' = [calls EXCEPT ![s] = Return(c, <<"500", failMsg>>)]
                    /\ UNCHANGED <<bids, ntrans>>

SelectReview(s) ==
    /\ Quiet /\ calls[s].pc = "sel_review"
    /\ StatusWrite(s, "IN_REVIEW", <<"Bid under final review">>, "sel_accept",
                   "Error selecting bid")
    /\ UNCHANGED <<projects, nextBid, nCalls, cache, probe, ttl>>

SelectAccept(s) ==
    /\ Quiet /\ calls[s].pc = "sel_accept"
    /\ StatusWrite(s, "ACCEPTED", <<"Selected by client">>, "sel_bulk", "Error selecting bid")
    /\ UNCHANGED <<projects, nextBid, nCalls, cache, probe, ttl>>

\* the filter of Bid.updateMany
BulkRejectMatches(p, b) ==
    {o \in BidIds : bids[o].exists /\ bids[o].project = p /\ o # b
                    /\ bids[o].cur \in {"PENDING", "IN_REVIEW"}}

\* (mutant) the update of the competing bids without its $push
BulkRejectDeltaNoHistory ==
    [NoDelta EXCEPT !.setCur = TRUE, !.cur = "REJECTED"]

BulkRejectDelta ==
    [NoDelta EXCEPT !.setCur = TRUE, !.cur = "REJECTED",
                    !.push = <<HistEntry("REJECTED", <<"Another bid was selected">>)>>]

\* Bid.updateMany(..., { session }): the first operation of the transaction. A
\* matched document that another transaction has written is a write conflict.
SelectBulkReject(s) ==
    LET c == calls[s]
        m == BulkRejectMatches(c.projectId, c.bidId)
    IN /\ Quiet /\ c.pc = "sel_bulk"
       /\ calls' = [calls EXCEPT ![s] =
              IF \E o \in m : LockedBid(s, o)
              THEN Return(c, <<"500", "Error selecting bid">>)
              ELSE [c EXCEPT !.pc = "sel_projsave", !.txBids = m, !.snap = TRUE]]
       /\ UNCHANGED <<bids, projects, nextBid, nCalls, ntrans, cache, probe, ttl>>

\* project.save({ session }) after status.current was set and one entry pushed;
\* project.pre('save') pushes a second one
ProjectDelta ==
    [NoDelta EXCEPT !.setCur = TRUE, !.cur = "IN_PROGRESS",
                    !.push = <<HistEntry("IN_PROGRESS", <<"Bid selected and accepted">>),
                               HistEntry("IN_PROGRESS", Undefined)>>]

SelectProjectSave(s) ==
    LET c == calls[s]
    IN /\ Quiet /\ c.pc = "sel_projsave"
       /\ calls' = [calls EXCEPT ![s] =
              IF LockedProject(s, c.projectId) \/ c.stale \/ ~projects[c.projectId].exists
              THEN Return(c, <<"500", "Error selecting bid">>)
              ELSE [c EXCEPT !.pc = "sel_commit", !.txProj = TRUE]]
       /\ UNCHANGED <<bids, projects, nextBid, nCalls, ntrans, cache, probe, ttl>>

\* session.commitTransaction(): the writes of the transaction become visible
\* together; open transactions that read the project before see it as changed.
\* The call goes on to _clearProjectBidCaches(projectId).
SelectCommit(s) ==
    LET c == calls[s]
    IN /\ Quiet /\ c.pc = "sel_commit"
       /\ bids' = [o \in BidIds |->
                     IF o \in c.txBids THEN ApplyDelta(bids[o], BulkRejectDelta) ELSE bids[o]]
       /\ projects' = [projects EXCEPT ![c.projectId] =
                          [@ EXCEPT !.cur = ProjectDelta.cur, !.hist = @ \o ProjectDelta.push]]
       /\ calls' = [t \in Slots |->
                      IF t = s
                      THEN [c EXCEPT !.pc = "sel_populate", !.txBids = {}, !.txProj = FALSE,
                                     !.snap = FALSE]
                      ELSE IF calls[t].snap /\ calls[t].projectId = c.projectId
                      THEN [calls[t] EXCEPT !.stale = TRUE]
                      ELSE calls[t]]
       /\ ntrans' = [o \in BidIds |-> IF o \in c.txBids THEN ntrans[o] + 1 ELSE ntrans[o]]
       /\ cache' = clearProjectBidCaches(cache, c.projectId)
       /\ UNCHANGED <<nextBid, nCalls, probe, ttl>>

\* the two populate() calls after the commit, then the return
SelectPopulate(s) ==
    /\ Quiet /\ calls[s].pc = "sel_populate"
    /\ calls' = [calls EXCEPT ![s] = Return(calls[s], Ok)]
    /\ UNCHANGED <<bids, projects, nextBid, nCalls, ntrans, cache, probe, ttl>>

\* a database operation of selectBid fails (connection lost, server error): the
\* catch block aborts the transaction and the call returns the error
SelectFault(s) ==
    /\ Quiet /\ calls[s].pc \in {"sel_bulk", "sel_projsave", "sel_commit", "sel_populate"}
    /\ calls' = [calls EXCEPT ![s] =
           Return(calls[s],
                  IF calls[s].pc = "sel_populate"
                  THEN <<"500", "Cannot call abortTransaction after calling commitTransaction">>
                  ELSE <<"500", "Error selecting bid">>)]
    /\ UNCHANGED <<bids, projects, nextBid, nCalls, ntrans, cache, probe, ttl>>

RejectSave(s) ==
    /\ Quiet /\ calls[s].pc = "rj_save"
    /\ StatusWrite(s, "REJECTED", calls[s].reason, "done", "Error rejecting bid")
    /\ UNCHANGED <<projects, nextBid, nCalls, cache, probe, ttl>>

\* -------------------------------------------------------------- deleteBid
\* (mutant) deleteBid without the check of the bid's status
DeleteBidChecksNoStatusGuard(b, u) ==
    IF u \notin VendorUsers THEN <<"404", "Vendor profile not found">>
    ELSE IF ~bids[b].exists THEN <<"404", "Bid not found">>
    ELSE IF bids[b].vendor # VendorProfile(u).id
    THEN <<"403", "Not authorized to delete this bid">>
    ELSE Ok

DeleteBidChecks(b, u) ==
    IF u \notin VendorUsers THEN <<"404", "Vendor profile not found">>
    ELSE IF ~bids[b].exists THEN <<"404", "Bid not found">>
    ELSE IF bids[b].vendor # VendorProfile(u).id
    THEN <<"403", "Not authorized to delete this bid">>
    ELSE IF bids[b].cur # "PENDING" THEN <<"400", "Only pending bids can be deleted">>
    ELSE Ok

DeleteBidStart(s, b, u) ==
    /\ CanStart(s)
    /\ nCalls' = nCalls + 1
    /\ LET c0 == [IdleCall EXCEPT !.op = "deleteBid", !.bidId = b, !.user = u]
           chk == DeleteBidChecks(b, u)
       IN calls' = Begin(s, IF chk = Ok THEN [c0 EXCEPT !.pc = "db_delete", !.lbid = bids[b]]
                               ELSE Return(c0, chk))
    /\ UNCHANGED <<bids, projects, nextBid, ntrans, cache, probe, ttl>>

\* Bid.findByIdAndDelete(bidId), then _clearProjectBidCaches(bid.project)
DeleteBidRemove(s) ==
    LET c == calls[s]
    IN /\ Quiet /\ c.pc = "db_delete" /\ ~LockedBid(s, c.bidId)
       /\ bids' = [bids EXCEPT ![c.bidId] = NoBid]
       /\ cache' = clearProjectBidCaches(cache, c.lbid.project)
       /\ calls' = [calls EXCEPT ![s] = Return(c, Ok)]
       /\ UNCHANGED <<projects, nextBid, nCalls, ntrans, probe, ttl>>

\* ----------------------------------------------------------- negotiateBid
Initiators == {"client", "vendor"}
\* negotiationData.status; "" is a payload without it (the schema default applies)
PayloadStatuses == {"", "accepted"}

NegotiateChecks(b) ==
    IF ~bids[b].exists THEN <<"404", "Bid not found">>
    ELSE IF bids[b].cur \notin {"PENDING", "IN_REVIEW"}
    THEN <<"400", "Bid cannot be negotiated in current status">>
    ELSE Ok

NegotiateStart(s, b, initiator, payloadStatus) ==
    /\ CanStart(s)
    /\ nCalls' = nCalls + 1
    /\ LET c0 == [IdleCall EXCEPT !.op = "negotiate", !.bidId = b]
           chk == NegotiateChecks(b)
           entry == [initiator |-> initiator,
                     status |-> IF payloadStatus = "" THEN "pending" ELSE payloadStatus]
       IN calls' = Begin(s, IF chk = Ok THEN [c0 EXCEPT !.pc = "ng_save", !.neg = entry]
                               ELSE Return(c0, chk))
    /\ UNCHANGED <<bids, projects, nextBid, ntrans, cache, probe, ttl>>

\* bid.addNegotiation(...): push and save()
NegotiateSave(s) ==
    LET c == calls[s]
    IN /\ Quiet /\ c.pc = "ng_save" /\ ~LockedBid(s, c.bidId)
       /\ IF bids[c.bidId].exists
          THEN /\ bids' = [bids EXCEPT ![c.bidId].negs = Append(@, c.neg)]
               /\ calls' = [calls EXCEPT ![s] = Return(c, Ok)]
          ELSE /\ calls' = [calls EXCEPT ![s] =
                      Return(c, <<"500", "Error processing negotiation">>)]
               /\ UNCHANGED bids
       /\ UNCHANGED <<projects, nextBid, nCalls, ntrans, cache, probe, ttl>>

\* ---------------------------------------------------------- deleteProject
\* Project.findOneAndDelete({ _id: projectId, client: clientId })
DeleteProjectStart(s, p, u) ==
    LET found == projects[p].exists /\ projects[p].client = ClientProfileOf(u)
        c0 == [IdleCall EXCEPT !.op = "deleteProject", !.projectId = p, !.user = u]
    IN /\ CanStart(s) /\ ~LockedProject(s, p)
       /\ nCalls' = nCalls + 1
       /\ calls' = Begin(s, IF found THEN [c0 EXCEPT !.pc = "dp_bids"]
                               ELSE Return(c0, <<"404", "Project not found or access denied">>))
       /\ projects' = IF found THEN [projects EXCEPT ![p] = NoProject] ELSE projects
       /\ UNCHANGED <<bids, nextBid, ntrans, cache, probe, ttl>>

\* Bid.deleteMany({ project: projectId }); _clearProjectCache concerns the
\* project service's own cache only
DeleteProjectBids(s) ==
    LET c == calls[s]
        gone == {b \in BidIds : bids[b].exists /\ bids[b].project = c.projectId}
    IN /\ Quiet /\ c.pc = "dp_bids" /\ \A b \in gone : ~LockedBid(s, b)
       /\ bids' = [b \in BidIds |-> IF b \in gone THEN NoBid ELSE bids[b]]
       /\ calls' = [calls EXCEPT ![s] = Return(c, Ok)]
       /\ UNCHANGED <<projects, nextBid, nCalls, ntrans, cache, probe, ttl>>

\* ---------------------------------------------------------- updateProject
\* updateData as the controller passes it on (req.body): dotted paths of the
\* project document; the first names no status path
ProjectPatches ==
    {[keys |-> {"title"}, cur |-> "DRAFT", hist |-> <<>>],
     [keys |-> {"status.current"}, cur |-> "ON_HOLD", hist |-> <<>>],
     [keys |-> {"status.history"}, cur |-> "DRAFT", hist |-> <<>>]}

\* Project.findOneAndUpdate({ _id, client }, updateData, { new, runValidators }):
\* one store operation, no save middleware
UpdateProject(s, p, u, patch) ==
    LET found == projects[p].exists /\ projects[p].client = ClientProfileOf(u)
        c0 == [IdleCall EXCEPT !.op = "updateProject", !.projectId = p, !.user = u,
                               !.keys = patch.keys]
    IN /\ CanStart(s) /\ ~LockedProject(s, p)
       /\ nCalls' = nCalls + 1
       /\ calls' = Begin(s, Return(c0, IF found THEN Ok
                                       ELSE <<"404", "Project not found or access denied">>))
       /\ projects' =
             IF found
             THEN [projects EXCEPT
                     ![p].cur = IF "status.current" \in patch.keys THEN patch.cur ELSE @,
                     ![p].hist = IF "status.history" \in patch.keys THEN patch.hist ELSE @]
             ELSE projects
       /\ UNCHANGED <<bids, nextBid, ntrans, cache, probe, ttl>>

\* --------------------------------------------------------- getProjectBids
\* the $match of the aggregation
Matching(store, p, status) ==
    {b \in BidIds : store[b].exists /\ store[b].project = p
                    /\ (status = "" \/ store[b].cur = toUpperCase(status))}

\* $sort by metadata.submittedAt descending: the newest bid first
RECURSIVE Descending(_)
Descending(S) ==
    IF S = {} THEN <<>>
    ELSE LET m == CHOOSE x \in S : \A y \in S : y <= x
         IN <<m>> \o Descending(S \ {m})

\* $skip and $limit
Slice(seq, skip, limit) ==
    IF skip >= Len(seq) THEN <<>> ELSE SubSeq(seq, skip + 1, Min(Len(seq), skip + limit))

PageIds(store, p, status, pg) ==
    Slice(Descending(Matching(store, p, status)), (pg.page - 1) * pg.limit, pg.limit)

\* Bid.find({ _id: { $in: bidIds } }).select('-negotiations -previousWork') and
\* the response built from it
ListResponse(store, ids, total) ==
    LET found == SelectSeq(ids, LAMBDA b : store[b].exists)
    IN [present |-> TRUE,
        bids |-> [i \in 1..Len(found) |->
                    [id |-> found[i], doc |-> [store[found[i]] EXCEPT !.negs = <<>>]]],
        total |-> total]

GetBidsStart(s, p, status, page, limit) ==
    /\ CanStart(s)
    /\ nCalls' = nCalls + 1
    /\ LET pg == validatePagination(page, limit)
           key == ListKey(p, status, pg)
           c0 == [IdleCall EXCEPT !.op = "getProjectBids", !.projectId = p,
                                  !.filter = status, !.page = pg.page, !.limit = pg.limit]
       IN calls' = Begin(s,
             IF cache.lists[key].present
             THEN [Return(c0, Ok) EXCEPT !.list = cache.lists[key]]
             ELSE [c0 EXCEPT !.pc = "gb_find", !.ids = PageIds(bids, p, status, pg),
                             !.total = Cardinality(Matching(bids, p, status))])
    /\ UNCHANGED <<bids, projects, nextBid, ntrans, cache, probe, ttl>>

GetBidsFind(s) ==
    LET c == calls[s]
        key == ListKey(c.projectId, c.filter, [page |-> c.page, limit |-> c.limit])
        response == ListResponse(bids, c.ids, c.total)
    IN /\ Quiet /\ c.pc = "gb_find"
       /\ cache' = [cache EXCEPT !.lists[key] = response]
       /\ calls' = [calls EXCEPT ![s] = [Return(c, Ok) EXCEPT !.list = response]]
       /\ UNCHANGED <<bids, projects, nextBid, nCalls, ntrans, probe, ttl>>

\* ------------------------------------------------- getCompetitiveAnalysis
\* Bid.findCompetingBids(projectId, excludeBidId)
\* (mutant) the query without the _id: { $ne: excludeBidId } condition
findCompetingBidsAll(store, p, b) ==
    {o \in DOMAIN store : store[o].exists /\ store[o].project = p
                          /\ store[o].cur \in {"PENDING", "IN_REVIEW"}}

findCompetingBids(store, p, b) ==
    {o \in DOMAIN store : store[o].exists /\ store[o].project = p /\ o # b
                          /\ store[o].cur \in {"PENDING", "IN_REVIEW"}}

\* .sort('proposedCost.total'): the documents found, the cheapest first
RECURSIVE ByCost(_, _)
ByCost(store, ids) ==
    IF ids = {} THEN <<>>
    ELSE LET m == CHOOSE x \in ids :
                     \A y \in ids : store[x].cost < store[y].cost
                                     \/ (store[x].cost = store[y].cost /\ x <= y)
         IN <<store[m]>> \o ByCost(store, ids \ {m})

\* [...costs].sort((a, b) => a - b)
RECURSIVE SortAscending(_)
SortAscending(xs) ==
    IF xs = <<>> THEN <<>>
    ELSE LET i == CHOOSE j \in 1..Len(xs) : \A k \in 1..Len(xs) : xs[j] <= xs[k]
         IN <<xs[i]>> \o SortAscending(SubSeq(xs, 1, i - 1) \o SubSeq(xs, i + 1, Len(xs)))

\* a quotient a / b of two numbers, kept exact
Quotient(a, b) == [num |-> a, den |-> b]

\* (mutant) the median taken below the middle for an even number of bids
calculateBidStatisticsLowerMedian(bid, competingBids) ==
    IF Len(competingBids) = 0
    THEN [averageCost |-> Quotient(bid.cost, 1),
          medianCost |-> bid.cost,
          costRange |-> [min |-> bid.cost, max |-> bid.cost],
          averageDuration |-> Quotient(bid.duration, 1),
          bidCount |-> 1]
    ELSE LET costs == [i \in 1..Len(competingBids) |-> competingBids[i].cost]
             durations == [i \in 1..Len(competingBids) |-> competingBids[i].duration]
             sortedCosts == SortAscending(costs)
         IN [averageCost |-> Quotient(Sum(costs), Len(costs)),
             medianCost |-> sortedCosts[((Len(sortedCosts) - 1) \div 2) + 1],
             costRange |-> [min |-> sortedCosts[1], max |-> sortedCosts[Len(sortedCosts)]],
             averageDuration |-> Quotient(Sum(durations), Len(durations)),
             bidCount |-> Len(competingBids) + 1]

\* _calculateBidStatistics; sequences are indexed from 1, arrays from 0
calculateBidStatistics(bid, competingBids) ==
    IF Len(competingBids) = 0
    THEN [averageCost |-> Quotient(bid.cost, 1),
          medianCost |-> bid.cost,
          costRange |-> [min |-> bid.cost, max |-> bid.cost],
          averageDuration |-> Quotient(bid.duration, 1),
          bidCount |-> 1]
    ELSE LET costs == [i \in 1..Len(competingBids) |-> competingBids[i].cost]
             durations == [i \in 1..Len(competingBids) |-> competingBids[i].duration]
             sortedCosts == SortAscending(costs)
         IN [averageCost |-> Quotient(Sum(costs), Len(costs)),
             medianCost |-> sortedCosts[(Len(sortedCosts) \div 2) + 1],
             costRange |-> [min |-> sortedCosts[1], max |-> sortedCosts[Len(sortedCosts)]],
             averageDuration |-> Quotient(Sum(durations), Len(durations)),
             bidCount |-> Len(competingBids) + 1]

\* _calculateTeamScore and _calculatePreviousWorkScore return a placeholder
calculateTeamScore == 80
calculatePreviousWorkScore == 80

Abs(x) == IF x < 0 THEN -x ELSE x

\* _calculateCompetitivenessScore. With avg = num / den, (x - avg) / avg is
\* (x * den - num) / num; a zero average makes it NaN (0 / 0) or infinite.
\* The score is 100 - 40 a / s - 30 b / t + 0.2 team + 0.1 previousWork, kept
\* as one quotient over 10 s t, then Math.max(0, Math.min(100, score)).
calculateCompetitivenessScore(bid, stats) ==
    LET s == stats.averageCost.num
        a == Abs(bid.cost * stats.averageCost.den - s)
        t == stats.averageDuration.num
        b == Abs(bid.duration * stats.averageDuration.den - t)
        num == (1000 + 2 * calculateTeamScore + calculatePreviousWorkScore) * s * t
               - 400 * a * t - 300 * b * s
        den == 10 * s * t
    IN IF (s = 0 /\ a = 0) \/ (t = 0 /\ b = 0)
       THEN [nan |-> TRUE, num |-> 0, den |-> 1]
       ELSE IF s = 0 \/ t = 0 \/ num <= 0
       THEN [nan |-> FALSE, num |-> 0, den |-> 1]
       ELSE IF num >= 100 * den
       THEN [nan |-> FALSE, num |-> 100, den |-> 1]
       ELSE [nan |-> FALSE, num |-> num, den |-> den]

\* the analysis: the bid's cost and, of _calculateBidStatistics, bidCount and costRange
Analysis(store, doc, competing) ==
    LET costs == {store[o].cost : o \in competing}
    IN IF competing = {}
       THEN [present |-> TRUE, cost |-> doc.cost, bidCount |-> 1,
             min |-> doc.cost, max |-> doc.cost]
       ELSE [present |-> TRUE, cost |-> doc.cost, bidCount |-> Cardinality(competing) + 1,
             min |-> CHOOSE x \in costs : \A y \in costs : x <= y,
             max |-> CHOOSE x \in costs : \A y \in costs : x >= y]

GetAnalysisStart(s, b) ==
    /\ CanStart(s)
    /\ nCalls' = nCalls + 1
    /\ LET c0 == [IdleCall EXCEPT !.op = "getAnalysis", !.bidId = b]
       IN calls' = Begin(s,
             IF cache.analyses[b].present
             THEN [Return(c0, Ok) EXCEPT !.analysis = cache.analyses[b]]
             ELSE IF ~bids[b].exists THEN Return(c0, <<"404", "Bid not found">>)
             ELSE [c0 EXCEPT !.pc = "ca_compete", !.lbid = bids[b]])
    /\ UNCHANGED <<bids, projects, nextBid, ntrans, cache, probe, ttl>>

GetAnalysisCompete(s) ==
    LET c == calls[s]
        a == Analysis(bids, c.lbid, findCompetingBids(bids, c.lbid.project, c.bidId))
    IN /\ Quiet /\ c.pc = "ca_compete"
       /\ cache' = [cache EXCEPT !.analyses[c.bidId] = a]
       /\ calls' = [calls EXCEPT ![s] = [Return(c, Ok) EXCEPT !.analysis = a]]
       /\ UNCHANGED <<bids, projects, nextBid, nCalls, ntrans, probe, ttl>>

\* TTLCache.get of an expired entry, and cleanup(): an entry older than the ttl
\* is dropped
CacheExpire ==
    /\ Quiet
    /\ \/ \E k \in ListKeys :
             /\ cache.lists[k].present
             /\ cache' = [cache EXCEPT !.lists[k] = NoList]
       \/ \E b \in BidIds :
             /\ cache.analyses[b].present
             /\ cache' = [cache EXCEPT !.analyses[b] = NoAnalysis]
    /\ UNCHANGED <<bids, projects, calls, nextBid, nCalls, ntrans, probe, ttl>>

\* ---------------------------------------------------------- specification
Step(s) ==
        \/ \E p \in ProjectIds, u \in VendorUsers, cost \in Costs : SubmitStart(s, p, u, cost)
        \/ SubmitSave(s)
        \/ SubmitCommit(s)
        \/ \E b \in TargetIds, u \in VendorUsers, patch \in Patches : UpdateStart(s, b, u, patch)
        \/ UpdateSave(s)
        \/ \E b \in TargetIds, p \in ProjectIds, u \in ClientUsers : SelectStart(s, b, p, u)
        \/ \E b \in TargetIds, p \in ProjectIds, u \in ClientUsers, r \in Reasons :
              RejectStart(s, b, p, u, r)
        \/ LoadBid(s)
        \/ LoadProject(s)
        \/ SelectReview(s)
        \/ SelectAccept(s)
        \/ SelectBulkReject(s)
        \/ SelectProjectSave(s)
        \/ SelectCommit(s)
        \/ SelectPopulate(s)
        \/ SelectFault(s)
        \/ RejectSave(s)
        \/ Retire(s)

Next == \E s \in Slots : Step(s)

Spec == Init /\ [][Next]_vars

\* the same service over a store that holds no bid yet
InitEmpty == Init /\ bids = NoBids

SpecEmpty == InitEmpty /\ [][Next]_vars

\* ------------------------------------- one request at a time, every operation
\* a user without a vendor profile
NoProfileUser == 3

\* the operations that write to the store
MutStep(s) ==
    \/ Step(s)
    \/ \E p \in ProjectIds, cost \in Costs : SubmitStart(s, p, NoProfileUser, cost)
    \/ \E b \in TargetIds, patch \in Patches : UpdateStart(s, b, NoProfileUser, patch)
    \/ \E b \in TargetIds, u \in VendorUsers, patch \in OtherPatches : UpdateStart(s, b, u, patch)
    \/ \E b \in TargetIds, u \in VendorUsers \cup {NoProfileUser} : DeleteBidStart(s, b, u)
    \/ DeleteBidRemove(s)
    \/ \E b \in TargetIds, i \in Initiators, st \in PayloadStatuses : NegotiateStart(s, b, i, st)
    \/ NegotiateSave(s)
    \/ \E p \in ProjectIds, u \in ClientUsers : DeleteProjectStart(s, p, u)
    \/ DeleteProjectBids(s)

NextSeq == MutStep("r1")

SpecSeq == Init /\ [][NextSeq]_vars

\* --------------------------------- the same with the project's own update
NextProj ==
    \/ MutStep("r1")
    \/ \E p \in ProjectIds, u \in ClientUsers, patch \in ProjectPatches :
          UpdateProject("r1", p, u, patch)

SpecProj == Init /\ [][NextProj]_vars

\* --------------------------------------- the same with the cached reads
\* the cache that an earlier getProjectBids call on this store leaves behind
InitCaches(store) ==
    {EmptyCache} \cup
    {[EmptyCache EXCEPT !.lists[ListKey(p, st, validatePagination(pg, lm))] =
          ListResponse(store, PageIds(store, p, st, validatePagination(pg, lm)),
                       Cardinality(Matching(store, p, st)))] :
        p \in ProjectIds, st \in StatusArgs, pg \in PageArgs, lm \in LimitArgs}

InitCache ==
    /\ bids \in InitStores
    /\ projects = [p \in ProjectIds |-> IF p = 1 THEN NewProject(1, 0) ELSE NewProject(2, 5)]
    /\ calls = [s \in Slots |-> IdleCall]
    /\ nextBid = 1 + Cardinality({b \in BidIds : bids[b].exists})
    /\ nCalls = 0
    /\ ntrans = [b \in BidIds |-> 0]
    /\ cache \in InitCaches(bids)
    /\ probe = NoProbe
    /\ ttl = NewTTLCache

ReadStep(s) ==
    \/ \E p \in ProjectIds, st \in StatusArgs, pg \in PageArgs, lm \in LimitArgs :
          GetBidsStart(s, p, st, pg, lm)
    \/ GetBidsFind(s)
    \/ \E b \in TargetIds : GetAnalysisStart(s, b)
    \/ GetAnalysisCompete(s)

NextCache == MutStep("r1") \/ ReadStep("r1") \/ CacheExpire

SpecCache == InitCache /\ [][NextCache]_vars

\* ---------------------------------------------- bid.updateStatus on its own
\* a stored bid in any status of the schema's enum
StatusDoc(st, n) ==
    [exists |-> TRUE, project |-> 1, vendor |-> 1, cost |-> 100, cur |-> st,
     hist |-> [i \in 1..n |-> HistEntry(st, Undefined)], negs |-> <<>>,
     milestones |-> <<FOUNDATION_PAYMENT, STRUCTURE_PAYMENT, COMPLETION_PAYMENT>>]

InitUS ==
    /\ \E st \in BidStatuses, n \in 1..2 : bids = [NoBids EXCEPT ![1] = StatusDoc(st, n)]
    /\ projects = [p \in ProjectIds |-> IF p = 1 THEN NewProject(1, 0) ELSE NewProject(2, 5)]
    /\ calls = [s \in Slots |-> IdleCall]
    /\ nextBid = 2
    /\ nCalls = 0
    /\ ntrans = [b \in BidIds |-> 0]
    /\ cache = EmptyCache
    /\ probe = NoProbe
    /\ ttl = NewTTLCache

\* a caller loads the bid and calls bid.updateStatus(newStatus, reason)
StatusCallStart(newStatus, reason) ==
    /\ CanStart("r1")
    /\ nCalls' = nCalls + 1
    /\ calls' = Begin("r1", [IdleCall EXCEPT !.op = "updateStatus", !.pc = "us_save",
                                             !.bidId = 1, !.lbid = bids[1],
                                             !.newStatus = newStatus, !.reason = reason])
    /\ UNCHANGED <<bids, projects, nextBid, ntrans, cache, probe, ttl>>

StatusCallSave ==
    /\ Quiet /\ calls["r1"].pc = "us_save"
    /\ StatusWrite("r1", calls["r1"].newStatus, calls["r1"].reason, "done", "save failed")
    /\ UNCHANGED <<projects, nextBid, nCalls, cache, probe, ttl>>

NextUS ==
    \/ \E st \in BidStatuses, r \in Reasons \cup {Undefined} : StatusCallStart(st, r)
    \/ StatusCallSave
    \/ Retire("r1")

SpecUS == InitUS /\ [][NextUS]_vars

\* ------------------------------------- rejectBid on a bid in any status
NextRJ ==
    \/ \E b \in TargetIds, p \in ProjectIds, u \in ClientUsers, r \in Reasons \cup {Undefined} :
          RejectStart("r1", b, p, u, r)
    \/ LoadBid("r1")
    \/ LoadProject("r1")
    \/ RejectSave("r1")
    \/ Retire("r1")

SpecRJ == InitUS /\ [][NextRJ]_vars

\* ------------------------------------- _validateVendorEligibility by itself
MaxYears == 2
MaxRating == 2

\* lean VendorProfile documents: status, services, experience.yearsInBusiness
\* and ratings.average as the schema admits them
VendorInputs ==
    [status : {"active", "inactive", "suspended"},
     services : SUBSET {"residential", "NA", "any"},
     yearsInBusiness : 0..MaxYears,
     rating : 0..MaxRating]

\* lean Project documents, with or without preferences.vendorRequirements
ProjectInputs ==
    [projectType : {"residential", "commercial"},
     minExperience : {Absent} \cup 0..MaxYears,
     minRating : {Absent} \cup 0..MaxRating]

InitElig ==
    /\ bids = NoBids
    /\ projects = NoProjects
    /\ calls = [s \in Slots |-> IdleCall]
    /\ nextBid = 1
    /\ nCalls = 0
    /\ ntrans = [b \in BidIds |-> 0]
    /\ cache = EmptyCache
    /\ ttl = NewTTLCache
    /\ \E v \in VendorInputs, p \in ProjectInputs :
          probe = [fn |-> "eligibility", vendor |-> v, project |-> p,
                   done |-> FALSE, result |-> <<>>]

CheckEligibility ==
    /\ probe.fn = "eligibility" /\ ~probe.done
    /\ probe' = [probe EXCEPT !.done = TRUE,
                              !.result = validateVendorEligibility(probe.vendor, probe.project)]
    /\ UNCHANGED <<bids, projects, calls, nextBid, nCalls, ntrans, cache, ttl>>

NextElig == CheckEligibility

SpecElig == InitElig /\ [][NextElig]_vars

\* ----------------------------- the competitive analysis of a bid by itself
MaxOthers == 2
CostInputs == {0, 1, 3}          \* proposedCost.total, min 0
DurationInputs == {1, 2}         \* timeline.estimatedDuration.value, min 1
Subject == 1                     \* the _id of the bid under analysis

\* the other bids of the collection: of the subject's project and open, of
\* another project, or of the subject's project and rejected
OtherDocs ==
    {[exists |-> TRUE, project |-> k[1], cur |-> k[2], cost |-> c, duration |-> d] :
        k \in {<<1, "IN_REVIEW">>, <<2, "PENDING">>, <<1, "REJECTED">>},
        c \in CostInputs, d \in DurationInputs}

\* the collection: the subject, a PENDING bid of project 1, and the others
AnalysisStore(c, d, others) ==
    [i \in 1..(Len(others) + 1) |->
        IF i = Subject
        THEN [exists |-> TRUE, project |-> 1, cur |-> "PENDING", cost |-> c, duration |-> d]
        ELSE others[i - 1]]

InitStats ==
    /\ bids = NoBids
    /\ projects = NoProjects
    /\ calls = [s \in Slots |-> IdleCall]
    /\ nextBid = 1
    /\ nCalls = 0
    /\ ntrans = [b \in BidIds |-> 0]
    /\ cache = EmptyCache
    /\ ttl = NewTTLCache
    /\ \E n \in 0..MaxOthers :
          \E c \in CostInputs, d \in DurationInputs, others \in [1..n -> OtherDocs] :
             probe = [fn |-> "analysis", store |-> AnalysisStore(c, d, others), pc |-> "find",
                      competing |-> <<>>, stats |-> <<>>, score |-> <<>>]

\* Bid.findById(bidId).lean(), Bid.findCompetingBids(bid.project, bid._id)
FindCompeting ==
    /\ probe.fn = "analysis" /\ probe.pc = "find"
    /\ probe' = [probe EXCEPT
                    !.pc = "stats",
                    !.competing = ByCost(probe.store,
                        findCompetingBids(probe.store, probe.store[Subject].project, Subject))]
    /\ UNCHANGED <<bids, projects, calls, nextBid, nCalls, ntrans, cache, ttl>>

CalculateStatistics ==
    /\ probe.fn = "analysis" /\ probe.pc = "stats"
    /\ probe' = [probe EXCEPT
                    !.pc = "score",
                    !.stats = calculateBidStatistics(probe.store[Subject], probe.competing)]
    /\ UNCHANGED <<bids, projects, calls, nextBid, nCalls, ntrans, cache, ttl>>

CalculateScore ==
    /\ probe.fn = "analysis" /\ probe.pc = "score"
    /\ probe' = [probe EXCEPT
                    !.pc = "done",
                    !.score = calculateCompetitivenessScore(probe.store[Subject], probe.stats)]
    /\ UNCHANGED <<bids, projects, calls, nextBid, nCalls, ntrans, cache, ttl>>

NextStats == FindCompeting \/ CalculateStatistics \/ CalculateScore

SpecStats == InitStats /\ [][NextStats]_vars

\* ------------------------------------------------- one TTLCache by itself
MaxSize == 2                     \* this.maxSize
CacheTTL == 2                    \* this.ttl, in ticks of the clock
MaxTime == 3                     \* the clock stops here
CacheKeys == {"a", "b", "c"}
CacheValues == {1, 2}
Null == 0                        \* the null that get returns

HasKey(entries, key) == \E i \in 1..Len(entries) : entries[i].key = key

\* Map.delete(key)
MapDelete(entries, key) == SelectSeq(entries, LAMBDA e : e.key # key)

\* Map.set(key, entry): a key already present keeps its place in the order
MapSet(entries, entry) ==
    IF HasKey(entries, entry.key)
    THEN [i \in 1..Len(entries) |-> IF entries[i].key = entry.key THEN entry ELSE entries[i]]
    ELSE Append(entries, entry)

\* (mutant) set without the eviction of the oldest entry
TTLSetNoEviction(key, value) ==
    /\ ttl' = [ttl EXCEPT
                  !.entries = MapSet(ttl.entries,
                                     [key |-> key, value |-> value,
                                      expiresAt |-> ttl.now + CacheTTL]),
                  !.ret = <<"set", key>>]
    /\ UNCHANGED <<bids, projects, calls, nextBid, nCalls, ntrans, cache, probe>>

\* set(key, value): this.cache.keys().next().value of an empty Map is undefined
TTLSet(key, value) ==
    /\ LET kept == IF Len(ttl.entries) >= MaxSize /\ Len(ttl.entries) > 0
                   THEN MapDelete(ttl.entries, ttl.entries[1].key)
                   ELSE ttl.entries
       IN ttl' = [ttl EXCEPT
                    !.entries = MapSet(kept, [key |-> key, value |-> value,
                                              expiresAt |-> ttl.now + CacheTTL]),
                    !.ret = <<"set", key>>]
    /\ UNCHANGED <<bids, projects, calls, nextBid, nCalls, ntrans, cache, probe>>

\* (mutant) get without the check of expiresAt
TTLLookupNoExpiry(entries, now, key) ==
    IF ~HasKey(entries, key) THEN [entries |-> entries, value |-> Null]
    ELSE LET e == entries[CHOOSE i \in 1..Len(entries) : entries[i].key = key]
         IN [entries |-> entries, value |-> e.value]

\* get(key) as a function of the Map: the Map afterwards and the value returned
TTLLookup(entries, now, key) ==
    IF ~HasKey(entries, key) THEN [entries |-> entries, value |-> Null]
    ELSE LET e == entries[CHOOSE i \in 1..Len(entries) : entries[i].key = key]
         IN IF now > e.expiresAt
            THEN [entries |-> MapDelete(entries, key), value |-> Null]
            ELSE [entries |-> entries, value |-> e.value]

TTLGet(key) ==
    /\ LET r == TTLLookup(ttl.entries, ttl.now, key)
       IN ttl' = [ttl EXCEPT !.entries = r.entries, !.ret = <<"get", key, r.value>>]
    /\ UNCHANGED <<bids, projects, calls, nextBid, nCalls, ntrans, cache, probe>>

\* has(key): this.get(key) !== null
TTLHas(key) ==
    /\ LET r == TTLLookup(ttl.entries, ttl.now, key)
       IN ttl' = [ttl EXCEPT !.entries = r.entries, !.ret = <<"has", key, r.value # Null>>]
    /\ UNCHANGED <<bids, projects, calls, nextBid, nCalls, ntrans, cache, probe>>

TTLDelete(key) ==
    /\ ttl' = [ttl EXCEPT !.entries = MapDelete(ttl.entries, key), !.ret = <<"delete", key>>]
    /\ UNCHANGED <<bids, projects, calls, nextBid, nCalls, ntrans, cache, probe>>

TTLCleanup ==
    /\ ttl' = [ttl EXCEPT
                  !.entries = SelectSeq(ttl.entries, LAMBDA e : ~(ttl.now > e.expiresAt)),
                  !.ret = <<"cleanup">>]
    /\ UNCHANGED <<bids, projects, calls, nextBid, nCalls, ntrans, cache, probe>>

\* Date.now() moves on
Tick ==
    /\ ttl.now < MaxTime
    /\ ttl' = [ttl EXCEPT !.now = @ + 1]
    /\ UNCHANGED <<bids, projects, calls, nextBid, nCalls, ntrans, cache, probe>>

InitTTL ==
    /\ bids = NoBids
    /\ projects = NoProjects
    /\ calls = [s \in Slots |-> IdleCall]
    /\ nextBid = 1
    /\ nCalls = 0
    /\ ntrans = [b \in BidIds |-> 0]
    /\ cache = EmptyCache
    /\ probe = NoProbe
    /\ ttl = NewTTLCache

NextTTL ==
    \/ \E k \in CacheKeys, v \in CacheValues : TTLSet(k, v)
    \/ \E k \in CacheKeys : TTLGet(k)
    \/ \E k \in CacheKeys : TTLHas(k)
    \/ \E k \in CacheKeys : TTLDelete(k)
    \/ TTLCleanup
    \/ Tick

SpecTTL == InitTTL /\ [][NextTTL]_vars

\* ================================================================= claims
Stored(b) == bids[b].exists
Done(s, op) == calls[s].pc = "done" /\ calls[s].op = op
\* a call that ran from start to return with no other call in flight
DoneAlone(s, op) == Done(s, op) /\ calls[s].alone
Failed(c) == c.result # Ok
SameStatus(a, b) == a.exists = b.exists /\ a.cur = b.cur /\ a.hist = b.hist
StoreAsBefore(c) ==
    /\ \A b \in BidIds : SameStatus(bids[b], c.preBids[b])
    /\ \A p \in ProjectIds : SameStatus(projects[p], c.preProjects[p])
Open == {"PENDING", "IN_REVIEW"}

\* C1: for every project, in every reachable state, at most one bid that
\* references the project has status ACCEPTED, also while SelectBid calls on
\* different bids of the project interleave.
C1_AtMostOneAccepted ==
    \A p \in ProjectIds :
        Cardinality({b \in BidIds : Stored(b) /\ bids[b].project = p
                                     /\ bids[b].cur = "ACCEPTED"}) <= 1

\* C2: whenever a stored bid of project p is ACCEPTED, p is IN_PROGRESS and no
\* other bid of p is PENDING or IN_REVIEW: the three effects of a selection are
\* visible to other operations together or not at all.
C2_JointInvariant ==
    \A b \in BidIds :
        (Stored(b) /\ bids[b].cur = "ACCEPTED") =>
            /\ projects[bids[b].project].cur = "IN_PROGRESS"
            /\ \A o \in BidIds \ {b} :
                  (Stored(o) /\ bids[o].project = bids[b].project) => bids[o].cur \notin Open

\* C3: when SelectBid returns an error, the status and history of the selected
\* bid, of every other bid and of the project are what they were before the call.
C3_SelectErrorChangesNothing ==
    \A s \in Slots :
        (DoneAlone(s, "select") /\ Failed(calls[s])) => StoreAsBefore(calls[s])

\* C4: when SelectBid succeeds on a bid that was PENDING or IN_REVIEW, that bid is
\* ACCEPTED, every other bid of the bid's project that was PENDING or IN_REVIEW is
\* REJECTED with reason "Another bid was selected", the project's bids in any
\* other status are unchanged, and the project is IN_PROGRESS.
SelectEffect(c, p) ==
    /\ bids[c.bidId].cur = "ACCEPTED"
    /\ projects[p].cur = "IN_PROGRESS"
    /\ \A o \in BidIds \ {c.bidId} :
          (c.preBids[o].exists /\ c.preBids[o].project = p) =>
              IF c.preBids[o].cur \in Open
              THEN /\ bids[o].cur = "REJECTED"
                   /\ bids[o].hist = c.preBids[o].hist
                                       \o <<HistEntry("REJECTED", <<"Another bid was selected">>)>>
              ELSE bids[o] = c.preBids[o]

SelectedOpenBid(s) ==
    /\ DoneAlone(s, "select") /\ calls[s].result = Ok
    /\ calls[s].preBids[calls[s].bidId].exists
    /\ calls[s].preBids[calls[s].bidId].cur \in Open

C4_SelectEffect ==
    \A s \in Slots :
        SelectedOpenBid(s) => SelectEffect(calls[s], calls[s].preBids[calls[s].bidId].project)

\* the same statement for the calls whose projectId is the project of the bid
C4_SelectEffectOwnProject ==
    \A s \in Slots :
        (SelectedOpenBid(s)
         /\ calls[s].preBids[calls[s].bidId].project = calls[s].projectId)
            => SelectEffect(calls[s], calls[s].projectId)

\* C5: there is at most one bid per (project, vendor) pair, committed or not; of
\* two SubmitBid calls for the same pair one creates the bid and the other
\* returns the duplicate-bid error and persists nothing.
Duplicate == <<"400", "Vendor has already submitted a bid for this project">>
SamePair(a, p, v) == a.exists /\ a.project = p /\ a.vendor = v
PendingInsert(s, p, v) == SamePair(calls[s].txIns, p, v)

C5_OneBidPerPair ==
    /\ \A a, b \in BidIds :
          (Stored(a) /\ SamePair(bids[b], bids[a].project, bids[a].vendor)) => a = b
    /\ \A s \in Slots : calls[s].txIns.exists =>
          /\ \A b \in BidIds :
                ~SamePair(bids[b], calls[s].txIns.project, calls[s].txIns.vendor)
          /\ \A t \in Slots \ {s} :
                ~PendingInsert(t, calls[s].txIns.project, calls[s].txIns.vendor)
    /\ \A s \in Slots : Done(s, "submit") =>
          LET c == calls[s]
              v == VendorProfile(c.user).id
          IN /\ c.result = Ok => SamePair(bids[c.bidId], c.projectId, v)
             /\ c.result = Duplicate =>
                   \/ \E b \in BidIds : SamePair(bids[b], c.projectId, v)
                   \/ \E t \in Slots \ {s} : PendingInsert(t, c.projectId, v)
             /\ Failed(c) => c.bidId = 0 /\ (c.alone => bids = c.preBids)

\* two SubmitBid calls for the same pair raced: the second insert met the
\* uncommitted insert of the first and returned the duplicate-bid error
C5_Witness ==
    \E s \in Slots, t \in Slots :
        /\ s # t
        /\ Done(s, "submit") /\ calls[s].result = Duplicate /\ ~calls[s].alone
        /\ calls[t].op = "submit" /\ calls[t].pc = "sb_commit"
        /\ PendingInsert(t, calls[s].projectId, VendorProfile(calls[s].user).id)

\* C6: SelectBid on a bid that is already ACCEPTED returns successfully and
\* leaves every bid and every project as they were, so a second SelectBid in
\* sequence stores nothing new.
OwnedBefore(c) ==
    /\ c.preProjects[c.projectId].exists
    /\ c.preProjects[c.projectId].client = ClientProfileOf(c.user)

WasAccepted(c) == c.preBids[c.bidId].exists /\ c.preBids[c.bidId].cur = "ACCEPTED"

C6_SelectAcceptedIsNoOp ==
    \A s \in Slots :
        (DoneAlone(s, "select") /\ WasAccepted(calls[s])) =>
            /\ bids = calls[s].preBids
            /\ projects = calls[s].preProjects
            /\ OwnedBefore(calls[s]) => calls[s].result = Ok

C6_Witness ==
    \E s \in Slots :
        /\ DoneAlone(s, "select") /\ WasAccepted(calls[s]) /\ calls[s].result = Ok
        /\ bids[calls[s].bidId].cur = "ACCEPTED"

\* C7: bid.updateStatus(newStatus) succeeds exactly for the pairs of the
\* transition table; for every other pair, the pair (s, s) included, it fails
\* with an error that names both states and leaves status.current and
\* status.history as they were.
TransitionTable ==
    {<<"DRAFT", "PENDING">>, <<"DRAFT", "WITHDRAWN">>,
     <<"PENDING", "IN_REVIEW">>, <<"PENDING", "WITHDRAWN">>, <<"PENDING", "REJECTED">>,
     <<"IN_REVIEW", "ACCEPTED">>, <<"IN_REVIEW", "REJECTED">>, <<"IN_REVIEW", "PENDING">>,
     <<"ACCEPTED", "IN_REVIEW">>, <<"REJECTED", "IN_REVIEW">>, <<"WITHDRAWN", "PENDING">>}

C7_UpdateStatusFollowsTable ==
    \A s \in Slots :
        Done(s, "updateStatus") =>
            LET c == calls[s]
                before == c.preBids[c.bidId]
            IN IF <<before.cur, c.newStatus>> \in TransitionTable
               THEN c.result = Ok /\ bids[c.bidId].cur = c.newStatus
               ELSE /\ c.result = <<"400", "Invalid status transition from",
                                    before.cur, "to", c.newStatus>>
                    /\ SameStatus(bids[c.bidId], before)

C7_Witness ==
    \E s \in Slots :
        /\ Done(s, "updateStatus") /\ Failed(calls[s])
        /\ calls[s].newStatus = calls[s].preBids[calls[s].bidId].cur
        /\ calls[s].newStatus = "PENDING"

\* C8: in the history of every stored bid each pair of consecutive entries is a
\* transition of the bid transition table.
C8_HistoryFollowsTable ==
    \A b \in BidIds :
        Stored(b) =>
            \A i \in 1..(Len(bids[b].hist) - 1) :
                <<bids[b].hist[i].status, bids[b].hist[i + 1].status>> \in TransitionTable

\* C9: a bid created by SubmitBid that has undergone n successful status
\* transitions has exactly n + 1 history entries.
C9_OneEntryPerTransition ==
    \A b \in BidIds : Stored(b) => Len(bids[b].hist) = ntrans[b] + 1

\* C10: RejectBid on a bid that is ACCEPTED fails with the InvalidState error
\* and leaves every bid and every project as they were.
C10_RejectAcceptedFails ==
    \A s \in Slots :
        (DoneAlone(s, "reject") /\ WasAccepted(calls[s])) =>
            /\ Failed(calls[s])
            /\ bids = calls[s].preBids
            /\ projects = calls[s].preProjects
            /\ OwnedBefore(calls[s]) =>
                  calls[s].result = <<"400", "Cannot reject an accepted bid">>

C10_Witness ==
    \E s \in Slots :
        /\ DoneAlone(s, "reject") /\ WasAccepted(calls[s]) /\ OwnedBefore(calls[s])
        /\ calls[s].result = <<"400", "Cannot reject an accepted bid">>
        /\ bids[calls[s].bidId].cur = "ACCEPTED"

\* C11: SelectBid and RejectBid fail with NotFound/Forbidden and change no bid
\* and no project when the project named by projectId does not exist or does
\* not belong to the calling client's profile.
ClientCall(s) == DoneAlone(s, "select") \/ DoneAlone(s, "reject")

C11_UnownedProjectFails ==
    \A s \in Slots :
        (ClientCall(s) /\ ~OwnedBefore(calls[s])) =>
            /\ Failed(calls[s])
            /\ calls[s].result[1] \in {"403", "404"}
            /\ bids = calls[s].preBids
            /\ projects = calls[s].preProjects

\* SelectBid on a stored PENDING bid with the id of a project that was deleted
C11_Witness ==
    \E s \in Slots :
        /\ DoneAlone(s, "select")
        /\ ~calls[s].preProjects[calls[s].projectId].exists
        /\ calls[s].preBids[calls[s].bidId].exists
        /\ calls[s].preBids[calls[s].bidId].cur = "PENDING"
        /\ calls[s].result = <<"404", "Project not found or unauthorized">>
        /\ bids = calls[s].preBids

\* C12: SubmitBid persists a bid only if the vendor and the project exist, the
\* project is OPEN or IN_REVIEW and the vendor is eligible; otherwise it returns
\* an error and the set of persisted bids is unchanged.
Eligible(v, p) ==
    /\ v.status = "active"
    /\ v.services = {} \/ "NA" \in v.services \/ p.projectType \in v.services
    /\ p.minExperience <= v.yearsInBusiness
    /\ p.minRating <= v.rating

MaySubmit(c) ==
    /\ c.user \in VendorUsers
    /\ c.preProjects[c.projectId].exists
    /\ c.preProjects[c.projectId].cur \in {"OPEN", "IN_REVIEW"}
    /\ Eligible(VendorProfile(c.user), c.preProjects[c.projectId])

C12_SubmitOnlyWhenAllowed ==
    \A s \in Slots :
        DoneAlone(s, "submit") =>
            /\ calls[s].result = Ok => MaySubmit(calls[s])
            /\ bids # calls[s].preBids => MaySubmit(calls[s])
            /\ ~MaySubmit(calls[s]) => Failed(calls[s]) /\ bids = calls[s].preBids

\* the vendor with 2 years in business bids on the project that asks for 5
C12_Witness ==
    \E s \in Slots :
        /\ DoneAlone(s, "submit")
        /\ VendorProfile(calls[s].user).yearsInBusiness = 2
        /\ calls[s].preProjects[calls[s].projectId].minExperience = 5
        /\ calls[s].result = <<"400", "Vendor does not meet minimum experience requirement">>
        /\ bids = calls[s].preBids

\* C13: after DeleteProject has succeeded, the project and every bid that
\* references it are gone, and every later GetProjectBids for that project
\* returns no bids, also when a list of its bids was cached before the deletion.
Deleted(p) ==
    /\ ~projects[p].exists
    /\ \A s \in Slots : ~(calls[s].op = "deleteProject" /\ calls[s].pc = "dp_bids")

C13_DeletedProjectHasNoBids ==
    \A p \in ProjectIds :
        Deleted(p) =>
            /\ \A b \in BidIds : Stored(b) => bids[b].project # p
            /\ \A s \in Slots :
                  (Done(s, "getProjectBids") /\ calls[s].projectId = p /\ calls[s].result = Ok)
                      => calls[s].list.bids = <<>>

\* C14: when a mutating operation has completed, the cache holds no bid-list
\* entry of the affected project and no competitive-analysis entry of a bid of
\* that project.
Mutating == {"submit", "update", "select", "reject", "deleteBid", "negotiate", "deleteProject"}

AffectedProject(c) ==
    IF c.op \in {"submit", "deleteProject", "select"} THEN c.projectId
    ELSE c.preBids[c.bidId].project

Completed(s) ==
    /\ calls[s].pc = "done" /\ calls[s].alone
    /\ calls[s].op \in Mutating
    /\ calls[s].result = Ok
    /\ bids # calls[s].preBids \/ projects # calls[s].preProjects

C14_MutationInvalidatesCache ==
    \A s \in Slots :
        Completed(s) =>
            LET p == AffectedProject(calls[s])
            IN /\ \A k \in ListKeys : k[1] = p => ~cache.lists[k].present
               /\ \A b \in BidIds :
                     (calls[s].preBids[b].exists /\ calls[s].preBids[b].project = p)
                         => ~cache.analyses[b].present

\* C15: DeleteBid removes the bid only when the caller is the vendor that owns
\* it and the bid is PENDING; otherwise it fails, with Forbidden for another
\* vendor and InvalidState for another status, and the bid stays as it was.
BidBefore(c) == c.preBids[c.bidId]
OwnsBid(c) == c.user \in VendorUsers /\ BidBefore(c).vendor = VendorProfile(c.user).id

C15_DeleteOnlyOwnPending ==
    \A s \in Slots :
        (DoneAlone(s, "deleteBid") /\ BidBefore(calls[s]).exists) =>
            LET c == calls[s]
            IN IF OwnsBid(c) /\ BidBefore(c).cur = "PENDING"
               THEN c.result = Ok /\ ~bids[c.bidId].exists
               ELSE /\ Failed(c)
                    /\ bids = c.preBids
                    /\ (c.user \in VendorUsers /\ ~OwnsBid(c)) => c.result[1] = "403"
                    /\ OwnsBid(c) => c.result[1] = "400"

\* the owner tries to delete a bid that is no longer PENDING
C15_Witness ==
    \E s \in Slots :
        /\ DoneAlone(s, "deleteBid") /\ BidBefore(calls[s]).exists /\ OwnsBid(calls[s])
        /\ BidBefore(calls[s]).cur \in {"ACCEPTED", "REJECTED"}
        /\ calls[s].result = <<"400", "Only pending bids can be deleted">>
        /\ bids[calls[s].bidId] = BidBefore(calls[s])

\* C16: UpdateBid fails with Forbidden when the bid belongs to another vendor
\* and with InvalidState when the bid is neither DRAFT nor PENDING; in both
\* cases no field of the bid changes.
C16_UpdateRefused ==
    \A s \in Slots :
        (DoneAlone(s, "update") /\ BidBefore(calls[s]).exists /\ calls[s].user \in VendorUsers) =>
            LET c == calls[s]
            IN /\ ~OwnsBid(c) =>
                     c.result = <<"403", "Not authorized to access this bid">> /\ bids = c.preBids
               /\ (OwnsBid(c) /\ BidBefore(c).cur \notin {"DRAFT", "PENDING"}) =>
                     c.result = <<"400", "Cannot update bid in current status">>
                     /\ bids = c.preBids

\* the owner sends a valid patch for a bid that was rejected or accepted
C16_Witness ==
    \E s \in Slots :
        /\ DoneAlone(s, "update") /\ BidBefore(calls[s]).exists /\ OwnsBid(calls[s])
        /\ BidBefore(calls[s]).cur \in {"ACCEPTED", "REJECTED"}
        /\ calls[s].result = <<"400", "Cannot update bid in current status">>
        /\ bids[calls[s].bidId] = BidBefore(calls[s])

\* C17: a successful UpdateBid leaves the bid's project, vendor, status.current,
\* status.history and identity as they were, whatever the patch names.
C17_UpdateKeepsImmutableFields ==
    \A s \in Slots :
        (DoneAlone(s, "update") /\ calls[s].result = Ok) =>
            LET c == calls[s]
                after == bids[c.bidId]
            IN /\ after.exists
               /\ after.project = BidBefore(c).project
               /\ after.vendor = BidBefore(c).vendor
               /\ after.cur = BidBefore(c).cur
               /\ after.hist = BidBefore(c).hist
               /\ \A o \in BidIds \ {c.bidId} : bids[o] = c.preBids[o]

\* a patch that names status, project, vendor and _id was applied: only the
\* cost changed
C17_Witness ==
    \E s \in Slots :
        /\ DoneAlone(s, "update") /\ calls[s].result = Ok
        /\ {"status", "project", "vendor", "_id"} \subseteq calls[s].keys
        /\ bids[calls[s].bidId].cur = "PENDING"
        /\ bids[calls[s].bidId].project = 1

\* C18: SelectBid on a bid that is not ACCEPTED fails with InvalidState and
\* changes nothing when the bid is not PENDING or IN_REVIEW or the project is
\* not OPEN or IN_REVIEW (the bid and the caller's project having been found).
ProjectBefore(c) == c.preProjects[c.projectId]

C18_SelectRefused ==
    \A s \in Slots :
        (/\ DoneAlone(s, "select")
         /\ BidBefore(calls[s]).exists /\ OwnedBefore(calls[s])
         /\ BidBefore(calls[s]).cur # "ACCEPTED"
         /\ \/ BidBefore(calls[s]).cur \notin {"PENDING", "IN_REVIEW"}
            \/ ProjectBefore(calls[s]).cur \notin {"OPEN", "IN_REVIEW"})
            => /\ calls[s].result[1] = "400"
               /\ bids = calls[s].preBids
               /\ projects = calls[s].preProjects

\* a PENDING bid is selected with a project that is already IN_PROGRESS
C18_Witness ==
    \E s \in Slots :
        /\ DoneAlone(s, "select") /\ OwnedBefore(calls[s])
        /\ BidBefore(calls[s]).exists /\ BidBefore(calls[s]).cur = "PENDING"
        /\ ProjectBefore(calls[s]).cur = "IN_PROGRESS"
        /\ calls[s].result = <<"400", "Project must be open or in review to select bids">>
        /\ bids = calls[s].preBids

\* C19: RejectBid by the owning client on a bid that is neither ACCEPTED nor
\* REJECTED (DRAFT, PENDING, IN_REVIEW or WITHDRAWN) makes the bid REJECTED and
\* records the reason in the new history entry.
RejectCall(s) ==
    DoneAlone(s, "reject") /\ BidBefore(calls[s]).exists /\ OwnedBefore(calls[s])

RecordsReason(c) ==
    LET n == Len(BidBefore(c).hist)
        after == bids[c.bidId]
    IN /\ after.cur = "REJECTED"
       /\ Len(after.hist) > n
       /\ SubSeq(after.hist, 1, n) = BidBefore(c).hist
       /\ after.hist[n + 1] = HistEntry("REJECTED", c.reason)

C20_RejectRejectedIsNoOp ==
    \A s \in Slots :
        (RejectCall(s) /\ BidBefore(calls[s]).cur = "REJECTED") =>
            /\ calls[s].result = Ok
            /\ bids = calls[s].preBids
            /\ projects = calls[s].preProjects

\* the second of two RejectBid calls on a bid that was PENDING
C20_Witness ==
    \E s \in Slots :
        /\ RejectCall(s) /\ BidBefore(calls[s]).cur = "REJECTED"
        /\ calls[s].result = Ok
        /\ HistEntry("REJECTED", <<"late">>) \in
              {BidBefore(calls[s]).hist[i] : i \in 1..Len(BidBefore(calls[s]).hist)}
        /\ bids[calls[s].bidId] = BidBefore(calls[s])

\* C21: NegotiateBid succeeds only while the bid is PENDING or IN_REVIEW; on
\* success it appends exactly one record to the negotiation log, with the given
\* initiator and status pending whatever the payload holds, and leaves
\* status.current and status.history alone; in any other status it fails and
\* the bid is unchanged.
C21_NegotiateAppendsPendingRecord ==
    \A s \in Slots :
        (DoneAlone(s, "negotiate") /\ BidBefore(calls[s]).exists) =>
            LET c == calls[s]
            IN IF BidBefore(c).cur \in {"PENDING", "IN_REVIEW"}
               THEN /\ c.result = Ok
                    /\ bids[c.bidId] =
                          [BidBefore(c) EXCEPT !.negs =
                              Append(@, [initiator |-> c.neg.initiator, status |-> "pending"])]
               ELSE /\ Failed(c)
                    /\ bids = c.preBids

\* C22: the negotiation log of a bid is append-only: after UpdateBid (with any
\* patch), NegotiateBid, SelectBid or RejectBid on an existing bid, every bid
\* that still exists has its earlier log as a prefix of its log.
IsPrefix(a, b) == Len(a) <= Len(b) /\ SubSeq(b, 1, Len(a)) = a

LogOps == {"update", "negotiate", "select", "reject"}

C22_NegotiationLogAppendOnly ==
    \A s \in Slots :
        (calls[s].pc = "done" /\ calls[s].alone /\ calls[s].op \in LogOps) =>
            \A b \in BidIds :
                (calls[s].preBids[b].exists /\ bids[b].exists) =>
                    IsPrefix(calls[s].preBids[b].negs, bids[b].negs)

\* C23: status histories are never mutated or truncated: after every operation
\* on an existing project or bid (UpdateProject and UpdateBid with any patch
\* included) the entity's status.history has its earlier history as a prefix.
C23_HistoriesAppendOnly ==
    \A s \in Slots :
        (calls[s].pc = "done" /\ calls[s].alone) =>
            /\ \A b \in BidIds :
                  (calls[s].preBids[b].exists /\ bids[b].exists) =>
                      IsPrefix(calls[s].preBids[b].hist, bids[b].hist)
            /\ \A p \in ProjectIds :
                  (calls[s].preProjects[p].exists /\ projects[p].exists) =>
                      IsPrefix(calls[s].preProjects[p].hist, projects[p].hist)

\* C24: every change of a project's status.current appends exactly one entry
\* carrying the new state to its status.history: a project just created in
\* OPEN has the one entry OPEN, and a SelectBid or UpdateProject that changes
\* status.current leaves the earlier history followed by one entry of the new
\* state.
C24_ProjectChangeAppendsOneEntry ==
    /\ nCalls = 0 =>
          \A p \in ProjectIds :
              projects[p].exists =>
                  Len(projects[p].hist) = 1 /\ projects[p].hist[1].status = "OPEN"
    /\ \A s \in Slots :
          (calls[s].pc = "done" /\ calls[s].alone) =>
              \A p \in ProjectIds :
                  (/\ calls[s].preProjects[p].exists /\ projects[p].exists
                   /\ projects[p].cur # calls[s].preProjects[p].cur) =>
                      /\ Len(projects[p].hist) = Len(calls[s].preProjects[p].hist) + 1
                      /\ IsPrefix(calls[s].preProjects[p].hist, projects[p].hist)
                      /\ projects[p].hist[Len(projects[p].hist)].status = projects[p].cur

\* C25: in every reachable state the milestone payment percentages of every
\* stored bid sum to exactly 100: after SubmitBid, and after every successful
\* UpdateBid whatever the patch holds.
C25_MilestonesSumTo100 ==
    \A b \in BidIds : bids[b].exists => Sum(bids[b].milestones) = 100

\* C26: the eligibility check returns ok exactly when all four conditions
\* hold and otherwise reports the first failing one, in this order: the vendor
\* is active; its service list is empty, holds the marker 'any' or holds the
\* project's type; yearsInBusiness >= minExperience (0 when absent); average
\* rating >= minRating (0 when absent).
OrZero(x) == IF x = Absent THEN 0 ELSE x

FirstFailure(v, p, marker) ==
    IF v.status # "active" THEN <<"400", "Vendor account is not active">>
    ELSE IF ~(v.services = {} \/ marker \in v.services \/ p.projectType \in v.services)
    THEN <<"400", "Project type does not match vendor services">>
    ELSE IF ~(v.yearsInBusiness >= OrZero(p.minExperience))
    THEN <<"400", "Vendor does not meet minimum experience requirement">>
    ELSE IF ~(v.rating >= OrZero(p.minRating))
    THEN <<"400", "Vendor does not meet minimum rating requirement">>
    ELSE Ok

EligibilityChecked == probe.fn = "eligibility" /\ probe.done

C26_EligibilityWithAnyMarker ==
    EligibilityChecked => probe.result = FirstFailure(probe.vendor, probe.project, "any")

\* C26 as the code has it: the same four conditions in the same order, the
\* marker that lets every project type pass being the service 'NA'.
C26_EligibilityWithNAMarker ==
    EligibilityChecked => probe.result = FirstFailure(probe.vendor, probe.project, "NA")

\* an active vendor that lists 'NA' fails both requirements of a project of
\* another type: the experience requirement is the one reported
C26_Witness ==
    /\ EligibilityChecked
    /\ probe.vendor.status = "active" /\ probe.vendor.services = {"residential", "NA"}
    /\ probe.project.projectType = "commercial"
    /\ probe.project.minExperience > probe.vendor.yearsInBusiness
    /\ probe.project.minRating > probe.vendor.rating
    /\ probe.result = <<"400", "Vendor does not meet minimum experience requirement">>

\* C27: the analysis of a bid with no competing bid (no other bid of its
\* project in PENDING or IN_REVIEW) has bidCount 1, and average cost, median
\* cost and both ends of the cost range equal to the bid's own cost, and
\* average duration equal to the bid's own duration.
StatsDone == probe.fn = "analysis" /\ probe.pc \in {"score", "done"}

\* the other bids of the subject's project that are PENDING or IN_REVIEW
Competitors ==
    {o \in DOMAIN probe.store \ {Subject} :
        /\ probe.store[o].project = probe.store[Subject].project
        /\ probe.store[o].cur \in {"PENDING", "IN_REVIEW"}}

\* the quotient q is the number x
IsNumber(q, x) == q.den > 0 /\ q.num = x * q.den

CostAt(o) == probe.store[o].cost

\* m stands at index k (from 0) of the competitors' costs in ascending order
StandsAt(m, k) ==
    /\ \E o \in Competitors : CostAt(o) = m
    /\ Cardinality({o \in Competitors : CostAt(o) < m}) <= k
    /\ k < Cardinality({o \in Competitors : CostAt(o) <= m})

RECURSIVE Total(_, _)
Total(ids, duration) ==
    IF ids = {} THEN 0
    ELSE LET o == CHOOSE x \in ids : TRUE
         IN (IF duration THEN probe.store[o].duration ELSE probe.store[o].cost)
            + Total(ids \ {o}, duration)

C29_ScoreInRange ==
    (probe.fn = "analysis" /\ probe.pc = "done") =>
        /\ ~probe.score.nan
        /\ probe.score.den > 0
        /\ 0 <= probe.score.num
        /\ probe.score.num <= 100 * probe.score.den

\* C30: after any sequence of set, get, has, delete and cleanup calls on a
\* TTLCache the number of stored entries never exceeds maxSize.
C30_SizeWithinMaxSize == Len(ttl.entries) <= MaxSize

\* a set on a full cache has just put in a key that was not there: the oldest
\* key is gone and the cache is full again
C30_Witness ==
    /\ ttl.ret[1] = "set"
    /\ Len(ttl.entries) = MaxSize
    /\ ttl.entries[Len(ttl.entries)].expiresAt = ttl.now + CacheTTL
    /\ ttl.entries[1].expiresAt < ttl.now
    /\ Cardinality({ttl.entries[i].key : i \in 1..Len(ttl.entries)}) = MaxSize

\* C31: a set of a key that is not present, on a TTLCache that holds maxSize
\* entries, evicts exactly one entry, the one inserted earliest; get and has
\* never reorder the entries; and a set of a key that is present leaves that
\* key where it stands in the eviction order.
KeysOf(entries) == [i \in 1..Len(entries) |-> entries[i].key]
KeySet(entries) == {entries[i].key : i \in 1..Len(entries)}
PlaceOf(entries, k) == CHOOSE i \in 1..Len(entries) : entries[i].key = k
Before(entries, j, k) == PlaceOf(entries, j) < PlaceOf(entries, k)

\* this step is a set of key k
IsSet(k) == ttl'.ret = <<"set", k>> /\ ttl' # ttl /\ ttl'.now = ttl.now

C31_FifoEviction ==
    [][\A k \in CacheKeys :
         /\ (IsSet(k) /\ ~HasKey(ttl.entries, k) /\ Len(ttl.entries) = MaxSize) =>
               KeysOf(ttl'.entries) = Tail(KeysOf(ttl.entries)) \o <<k>>
         /\ (ttl'.ret[1] \in {"get", "has"} /\ ttl'.ret[2] = k) =>
               KeysOf(ttl'.entries) \in {KeysOf(ttl.entries), KeysOf(MapDelete(ttl.entries, k))}
         /\ (IsSet(k) /\ HasKey(ttl.entries, k)) =>
               \A j \in (KeySet(ttl.entries) \cap KeySet(ttl'.entries)) \ {k} :
                   Before(ttl'.entries, j, k) <=> Before(ttl.entries, j, k)]_vars

\* C32: get never returns a value whose expiresAt is earlier than the current
\* time: such a lookup is a miss and removes the entry, and a key that is not
\* stored stays a miss until it is set again.
IsGet(k) == ttl'.ret[1] = "get" /\ ttl'.ret[2] = k /\ ttl'.now = ttl.now

C32_GetNeverReturnsExpired ==
    [][\A k \in CacheKeys :
         /\ IsGet(k) =>
               IF HasKey(ttl.entries, k)
               THEN LET e == ttl.entries[PlaceOf(ttl.entries, k)]
                    IN IF e.expiresAt < ttl.now
                       THEN ttl'.ret[3] = Null /\ ~HasKey(ttl'.entries, k)
                       ELSE ttl'.ret[3] = e.value
               ELSE ttl'.ret[3] = Null
         /\ (~HasKey(ttl.entries, k) /\ HasKey(ttl'.entries, k)) => ttl'.ret = <<"set", k>>]_vars

\* get has returned the value of a key at the very tick it expires, while an
\* entry that has expired is still stored
C32_Witness ==
    /\ ttl.ret[1] = "get" /\ ttl.ret[3] # Null
    /\ \E i \in 1..Len(ttl.entries) :
          /\ ttl.entries[i].key = ttl.ret[2]
          /\ ttl.entries[i].expiresAt = ttl.now
    /\ \E i \in 1..Len(ttl.entries) : ttl.entries[i].expiresAt < ttl.now

\* C40: a set on a key that is present only replaces its value and expiry: the
\* set of stored keys is unchanged, whatever the size of the cache.
C40_ResetKeepsKeys ==
    [][\A k \in CacheKeys :
         (IsSet(k) /\ HasKey(ttl.entries, k)) => KeySet(ttl'.entries) = KeySet(ttl.entries)]_vars

\* C33: SelectBid and RejectBid change the status of a bid only if the bid
\* references the projectId they are given: a call whose bid belongs to another
\* project changes no bid and moves no project to IN_PROGRESS.
C33_BidMustReferenceProject ==
    \A s \in Slots :
        (/\ ClientCall(s)
         /\ BidBefore(calls[s]).exists
         /\ BidBefore(calls[s]).project # calls[s].projectId) =>
            /\ bids = calls[s].preBids
            /\ projects = calls[s].preProjects

\* C34: once a bid's stored status is ACCEPTED, no step of a RejectBid, SelectBid
\* or UpdateBid call, each acting on the copy of the bid it loaded earlier,
\* changes the stored status of that bid to another value.
C34_AcceptedIsFinal ==
    [][\A b \in BidIds :
          (bids[b].exists /\ bids[b].cur = "ACCEPTED") =>
              (bids'[b].exists /\ bids'[b].cur = "ACCEPTED")]_vars

\* C36: the save of an UpdateBid call never changes a bid whose stored status at
\* the time of the write is ACCEPTED or REJECTED, also when a SelectBid or a
\* RejectBid wrote the bid between the call's status check and its save.
C36_NoUpdateOfSettledBid ==
    [][\A s \in Slots :
          (/\ calls[s].op = "update" /\ calls[s].pc = "ub_save"
           /\ calls'[s] # calls[s]
           /\ bids'[calls[s].bidId] # bids[calls[s].bidId]) =>
              bids[calls[s].bidId].cur \notin {"ACCEPTED", "REJECTED"}]_vars

\* ------------------- two requests in flight, with the deletes and the list read
\* submitBid, selectBid, rejectBid, deleteBid, deleteProject and getProjectBids,
\* any two of them interleaved at their awaits
RaceStep(s) ==
    \/ \E p \in ProjectIds, u \in VendorUsers : SubmitStart(s, p, u, 100)
    \/ SubmitSave(s)
    \/ SubmitCommit(s)
    \/ \E b \in TargetIds, p \in ProjectIds, u \in ClientUsers : SelectStart(s, b, p, u)
    \/ \E b \in TargetIds, p \in ProjectIds, u \in ClientUsers, r \in Reasons :
          RejectStart(s, b, p, u, r)
    \/ LoadBid(s)
    \/ LoadProject(s)
    \/ SelectReview(s)
    \/ SelectAccept(s)
    \/ SelectBulkReject(s)
    \/ SelectProjectSave(s)
    \/ SelectCommit(s)
    \/ SelectPopulate(s)
    \/ SelectFault(s)
    \/ RejectSave(s)
    \/ \E b \in TargetIds, u \in VendorUsers : DeleteBidStart(s, b, u)
    \/ DeleteBidRemove(s)
    \/ \E p \in ProjectIds, u \in ClientUsers : DeleteProjectStart(s, p, u)
    \/ DeleteProjectBids(s)
    \/ \E p \in ProjectIds, st \in StatusArgs, pg \in PageArgs, lm \in LimitArgs :
          GetBidsStart(s, p, st, pg, lm)
    \/ GetBidsFind(s)
    \/ Retire(s)

NextRace == \E s \in Slots : RaceStep(s)

SpecRace == Init /\ [][NextRace]_vars

\* C35: the removing step of a DeleteBid call never removes a bid whose stored
\* status at that moment is not PENDING, also when a SelectBid or a RejectBid
\* wrote the bid after the call's status check.
C35_DeleteOnlyPending ==
    [][\A s \in Slots :
          (/\ calls[s].op = "deleteBid" /\ calls[s].pc = "db_delete"
           /\ bids[calls[s].bidId].exists /\ ~bids'[calls[s].bidId].exists) =>
              bids[calls[s].bidId].cur = "PENDING"]_vars

\* C37: in every reachable state every stored bid references a stored project,
\* also between the two removals of DeleteProject and when a SubmitBid that read
\* the project before the deletion saves its bid afterwards.
C37_NoOrphanBid ==
    \A b \in BidIds : bids[b].exists => projects[bids[b].project].exists

\* C38: a getProjectBids call that read its bid list before a SelectBid or a
\* DeleteBid on the same project committed does not store that list in the cache
\* once the other call has run its invalidation and returned.
\* a bid that the read found is gone while the project is kept (a DeleteBid
\* committed since), or a bid that the read found as pending carries the
\* rejection of a selection (a SelectBid on the project committed since)
CommittedSince(c) ==
    \E i \in 1..Len(c.ids) :
        LET b == c.ids[i]
        IN \/ ~bids[b].exists /\ projects[c.projectId].exists
           \/ /\ bids[b].exists /\ c.filter = "pending" /\ bids[b].cur = "REJECTED"
              /\ bids[b].hist[Len(bids[b].hist)].reason = <<"Another bid was selected">>

C38_NoStaleListCached ==
    [][\A s \in Slots :
          LET c == calls[s]
              key == ListKey(c.projectId, c.filter, [page |-> c.page, limit |-> c.limit])
          IN (/\ c.op = "getProjectBids" /\ c.pc = "gb_find" /\ calls'[s].pc = "done"
              /\ \A t \in Slots \ {s} : ~InFlight(calls[t])
              /\ CommittedSince(c)) =>
                 ~cache'.lists[key].present]_vars

\* C39: in every reachable state, every stored bid's status.current equals the
\* status of the last entry of its status.history, after any interleaving of
\* SubmitBid, SelectBid (the selected bid and the bulk-rejected ones), RejectBid
\* and UpdateBid.
C39_CurrentIsLastHistory ==
    \A b \in BidIds :
        bids[b].exists =>
            /\ bids[b].hist # <<>>
            /\ bids[b].hist[Len(bids[b].hist)].status = bids[b].cur

\* a selection has committed: one bid is ACCEPTED after its two status writes and
\* another carries the rejection of the bulk update
C39_Witness ==
    \E b \in BidIds, o \in BidIds :
        /\ bids[b].exists /\ bids[b].cur = "ACCEPTED" /\ Len(bids[b].hist) > 2
        /\ bids[o].exists /\ bids[o].cur = "REJECTED"
        /\ bids[o].hist[Len(bids[o].hist)].reason = <<"Another bid was selected">>
        /\ C39_CurrentIsLastHistory

====
